---------------------------- MODULE Spec2Model ----------------------------
(***************************************************************************)
(* A model of datasourcer: the typed node tree built by marshalling.py,    *)
(* qualifier resolution (retrieve_by_qualifier and the traverse methods),  *)
(* the apply walk, build_path, and the validation policy functions of      *)
(* datasourcer.py.                                                         *)
(*                                                                         *)
(* Python values are represented as follows.  A str is a TLA+ string; a    *)
(* None held where a str is expected is NoneStr.  A node object is its     *)
(* index in the arena `nodes`; a None held where a node is expected is     *)
(* NoneId.  A dict is the sequence of its items [k, v] in insertion order  *)
(* (Python dicts iterate in insertion order).  A pathlib.Path is the       *)
(* sequence of its parts, an absolute path starting with the part "/".     *)
(* Optional[bool] is one of "True", "False", "None".                       *)
(***************************************************************************)
EXTENDS Integers, Sequences, FiniteSets, TLC

VARIABLES
    nodes,          \* arena of node objects: node id -> fields
    spec,           \* the root DataCollection passed to retrieve_by_qualifier
    data_context,   \* the DataContext shared by every Datasource
    op,             \* the operation that produced the current state
    qualifier,      \* qual_parts of the last retrieve_by_qualifier call
    match_case,     \* match_case of the last retrieve_by_qualifier call
    retrieved,      \* its return value (a node id or NoneId)
    calls,          \* the traverse invocations it made: [node, remaining]
    matches,        \* the successful check_dict lookups it made: [seg, key, node]
    apply_root,     \* the node apply was called on
    apply_stack,    \* the active apply frames [node, depth, next]
    visits,         \* the fn(node, depth) invocations, in order
    built,          \* the last build_path call: [node, raised, value]
    local_file,     \* size of the local file at file_path, or NoFile
    vf_args,        \* arguments of the last validate_file call
    vf_result,      \* its result [exists, is_valid]
    cvp_args,       \* arguments of the last check_validation_policy call
    cvp_result,     \* its result
    flags,          \* the flags wrap_apply was given: [download, download_dynamic]
    files,          \* the local files: path -> size
    dirs,           \* the directories os.makedirs was asked to create
    net,            \* the network calls made, in order
    cd,             \* the can_download calls made: [node, result]
    dl,             \* the download calls made: [node, name, ..., result]
    writes,         \* the files opened for writing: [node, path]
    ftp,            \* the FTP session of a RemoteSubset.download in progress
    snap,           \* the last retrieve_snapshot call: [node, timestamp, file_name]
    exc,            \* the exception that ended the operation, or NoneStr
    qualifier_args, \* args.qualifier: a list of lists of qualifiers
    retrieved_dict, \* process_args' dict retrieved: name -> node
    applied,        \* the nodes process_args called apply on, in order
    gc,             \* the get_chunked call in progress, or last made
    ncalls          \* the calls made on the tree before the current one

tree_vars    == <<nodes, spec, data_context>>
resolve_vars == <<qualifier, match_case, retrieved, calls, matches>>
apply_vars   == <<apply_root, apply_stack, visits>>
policy_vars  == <<local_file, vf_args, vf_result, cvp_args, cvp_result>>
fetch_vars   == <<flags, files, dirs, net, cd, dl, writes, ftp, snap, exc>>
args_vars    == <<qualifier_args, retrieved_dict, applied>>
chunk_vars   == <<gc>>
seq_vars     == <<ncalls>>
vars == <<nodes, spec, data_context, op, qualifier, match_case, retrieved,
          calls, matches, apply_root, apply_stack, visits, built,
          local_file, vf_args, vf_result, cvp_args, cvp_result,
          flags, files, dirs, net, cd, dl, writes, ftp, snap, exc,
          qualifier_args, retrieved_dict, applied, gc, ncalls>>

---------------------------------------------------------------------------
(* Bounds *)

\* longest qualifier (number of segments) handed to retrieve_by_qualifier
MaxQualLen == 4

\* largest file size (local or remote) considered
MaxSize == 2

\* longest listing an FTP server answers nlst with
MaxListing == 2

\* most -q arguments given, and most qualifiers after one -q
MaxArgs == 2

\* most children a node of the trees holds under one of its dicts
MaxChildren == 2

\* most calls made on a tree after the first
MaxCalls == 1

\* largest body get_chunked streams, and longest chunk, in bytes
MaxTotal == 12
MaxChunk == 3

---------------------------------------------------------------------------
(* Python values *)

NoneStr == "<None>"
NoneId == 0
\* None where an int is expected
NoneInt == -1
\* the size of a file that does not exist
NoFile == -1

\* str.lower() on the names that occur in the model
Lower(s) ==
    CASE s = "AB" -> "ab"
      [] s = "Ab" -> "ab"
      [] s = "CD" -> "cd"
      [] s = "Cd" -> "cd"
      [] s = "EF" -> "ef"
      [] s = "Ef" -> "ef"
      [] s = "/AB" -> "/ab"
      [] s = "/Ab" -> "/ab"
      [] OTHER -> s

\* pathlib.Path(name): the parts of the path a name denotes
Path(name) ==
    CASE name = "/ab" -> <<"/", "ab">>
      [] name = "/AB" -> <<"/", "AB">>
      [] name = "/Ab" -> <<"/", "Ab">>
      [] OTHER -> <<name>>

\* Path.__truediv__ (a / b): raises TypeError when b is None; an absolute
\* right operand replaces the left one.  A path value is [raised, value].
NonePath == <<NoneStr>>
Raised == [raised |-> TRUE, value |-> <<>>]
PathDiv(a, b) ==
    IF a.raised \/ b = NonePath THEN Raised
    ELSE IF Len(b) > 0 /\ b[1] = "/" THEN [raised |-> FALSE, value |-> b]
    ELSE [raised |-> FALSE, value |-> a.value \o b]

\* no get_chunked call has been made
NoChunks ==
    [active |-> FALSE, body |-> 0, filesize_src |-> -1, log |-> TRUE,
     cp_percent |-> [num |-> 1, den |-> 10], cp_chunk_size |-> 0,
     cp_chunk_idx |-> 0, chunk_accum |-> 0, emitted |-> 0]

\* no FTP session is open
NoSession ==
    [node |-> NoneId, open |-> FALSE, parent_dir |-> <<>>,
     validate_existing |-> TRUE, reload_unconfirmable |-> TRUE,
     remote_files |-> <<>>, next |-> 1, entries |-> <<>>]

\* dict.get(key)
DictGet(d, key) ==
    IF \E i \in DOMAIN d : d[i].k = key
    THEN d[CHOOSE i \in DOMAIN d : d[i].k = key].v
    ELSE NoneId

---------------------------------------------------------------------------
(* The node classes.  Every node record has the same fields; a field a     *)
(* class does not have keeps its default.                                  *)

Node(kind, name, path, parent) ==
    [kind |-> kind, name |-> name, path |-> path, parent |-> parent,
     datasources |-> <<>>, datasets |-> <<>>, org |-> NoneId,
     subsets |-> <<>>, resources |-> <<>>,
     source |-> NoneStr, retrieve_type |-> NoneStr,
     name_prefix |-> NoneStr, extension |-> NoneStr]

\* parse_datasource_spec: Datasource(name=name, path=Path(name), ...)
Datasource(name, parent, datasources, datasets) ==
    [Node("Datasource", name, Path(name), parent)
        EXCEPT !.datasources = datasources, !.datasets = datasets]

\* parse_dataset_spec: Dataset(name=name, path=Path(name), ...), org parsed
\* under the fixed name "data"
Dataset(name, parent, org) ==
    [Node("Dataset", name, Path(name), parent) EXCEPT !.org = org]

\* parse_subset_spec, type LOCAL
Subset(name, parent, subsets, resources) ==
    [Node("Subset", name, Path(name), parent)
        EXCEPT !.subsets = subsets, !.resources = resources]

\* parse_subset_spec, type REMOTE
RemoteSubset(name, parent, retrieve_type, source) ==
    [Node("RemoteSubset", name, Path(name), parent)
        EXCEPT !.retrieve_type = retrieve_type, !.source = source]

\* parse_resource_spec, create_type STATIC
StaticResource(name, parent, retrieve_type, source) ==
    [Node("StaticResource", name, Path(name), parent)
        EXCEPT !.retrieve_type = retrieve_type, !.source = source]

\* parse_resource_spec, create_type DYNAMIC: name=None, path=None
DynamicResource(name_prefix, extension, parent, retrieve_type, source) ==
    [Node("DynamicResource", NoneStr, NonePath, parent)
        EXCEPT !.retrieve_type = retrieve_type, !.source = source,
               !.name_prefix = name_prefix, !.extension = extension]

Item(k, v) == [k |-> k, v |-> v]

---------------------------------------------------------------------------
(* The trees the model is run on.  A tree is given by the casing of its    *)
(* declared names, by whether the child Source and the child Dataset of    *)
(* the root Source carry the same name, and by whether one nested          *)
(* collection is declared under an absolute name.                          *)

Schemes == {"lower", "upper", "mixed"}

Decl(scheme, base) ==
    CASE scheme = "lower" -> base
      [] scheme = "upper" ->
            (CASE base = "ab" -> "AB" [] base = "cd" -> "CD"
               [] base = "ef" -> "EF" [] base = "/ab" -> "/AB")
      [] scheme = "mixed" ->
            (CASE base = "ab" -> "Ab" [] base = "cd" -> "Cd"
               [] base = "ef" -> "Ef" [] base = "/ab" -> "/Ab")

TreeParams == [scheme : Schemes, collide : BOOLEAN, absolute : BOOLEAN]

\*  spec:  1 Datasource ab | 2 StaticResource cd | 3 RemoteSubset ef
\*  1:  datasources { 4 }            datasets { 5 (cd) }
\*  4:  (cd if collide, else ab)     datasets { 6 (ab), 7 (cd) }
\*  5:  org 10    6: org 8    7: org 9 (RemoteSubset)
\*  8:  resources { 11 (ab) }
\*  10: subsets { 12 (ab), 13 (cd, RemoteSubset) }  resources { 14 (ef) }
\*  12: subsets { 15 (ab or /ab) }   resources { 16 (cd), 17 (ef, dynamic) }
\*  15: resources { 18 (ab) }
TreeNodes(p) ==
    LET N(base) == Decl(p.scheme, base)
        kSS == IF p.collide THEN N("cd") ELSE N("ab")
        kDeep == IF p.absolute THEN N("/ab") ELSE N("ab")
    IN <<
      (* 1 *) Datasource(N("ab"), NoneId, <<Item(kSS, 4)>>, <<Item(N("cd"), 5)>>),
      (* 2 *) StaticResource(N("cd"), NoneId, "GET", "http://h/r0"),
      (* 3 *) RemoteSubset(N("ef"), NoneId, "FTP", "ftp://h/d0"),
      (* 4 *) Datasource(kSS, 1, <<>>, <<Item(N("ab"), 6), Item(N("cd"), 7)>>),
      (* 5 *) Dataset(N("cd"), 1, 10),
      (* 6 *) Dataset(N("ab"), 4, 8),
      (* 7 *) Dataset(N("cd"), 4, 9),
      (* 8 *) Subset("data", 6, <<>>, <<Item(N("ab"), 11)>>),
      (* 9 *) RemoteSubset("data", 7, "FTP", "ftp://h/d1"),
      (* 10 *) Subset("data", 5, <<Item(N("ab"), 12), Item(N("cd"), 13)>>,
                      <<Item(N("ef"), 14)>>),
      (* 11 *) StaticResource(N("ab"), 8, "GET", "http://h/r1"),
      (* 12 *) Subset(N("ab"), 10, <<Item(kDeep, 15)>>,
                      <<Item(N("cd"), 16), Item(N("ef"), 17)>>),
      (* 13 *) RemoteSubset(N("cd"), 10, "FTP", "ftp://h/d2"),
      (* 14 *) StaticResource(N("ef"), 10, "MANUAL", NoneStr),
      (* 15 *) Subset(kDeep, 12, <<>>, <<Item(N("ab"), 18)>>),
      (* 16 *) StaticResource(N("cd"), 12, "GET", "http://h/r2"),
      (* 17 *) DynamicResource("wx", "csv", 12, "GET", "http://h/live"),
      (* 18 *) StaticResource(N("ab"), 15, "GET", "http://h/r3")
    >>

\* parse_datasource_file: datasources[name] = ds_spec, in file order
TreeSpec(p) ==
    LET N(base) == Decl(p.scheme, base)
    IN <<Item(N("ab"), 1), Item(N("cd"), 2), Item(N("ef"), 3)>>

\* the data_directory argument
RootPaths == {<<"data">>, <<"/", "mnt">>}

---------------------------------------------------------------------------
(* The tree the retrieval operations are run on: one Source with two       *)
(* Datasets; every retrieval method occurs on a StaticResource, with and   *)
(* without source, and, when the tree has remote collections, on a         *)
(* RemoteSubset.                                                           *)

\*  spec: 1 Datasource ab        1: datasets { 2 (cd), 3 (ef) }
\*  2: org 4     3: org 5
\*  4: subsets { 6 (sub) }  resources { 7 (r1), 8 (r2), 9 (dynamic wx) }
\*  6: resources { 10 (r1), 11 (r4), 12 (r5), 13 (r6), 14 (r7), 15 (r8),
\*                 16 (dynamic obs) }
\*  5: subsets { 18 (rs1), 19 (rs2), 20 (rs3), 21 (rs4), 22 (rs5) } when the
\*     tree has remote collections, else none;  resources { 17 (r9) } and,
\*     with the remote collections, 23 (dynamic log, no source)
FetchNodes(remotes) ==
    <<
      (* 1 *) Datasource("ab", NoneId, <<>>, <<Item("cd", 2), Item("ef", 3)>>),
      (* 2 *) Dataset("cd", 1, 4),
      (* 3 *) Dataset("ef", 1, 5),
      (* 4 *) Subset("data", 2, <<Item("sub", 6)>>,
                     <<Item("r1", 7), Item("r2", 8), Item("wx", 9)>>),
      (* 5 *) Subset("data", 3,
                     IF remotes
                     THEN <<Item("rs1", 18), Item("rs2", 19), Item("rs3", 20),
                            Item("rs4", 21), Item("rs5", 22)>>
                     ELSE <<>>,
                     IF remotes THEN <<Item("r9", 17), Item("log", 23)>>
                     ELSE <<Item("r9", 17)>>),
      (* 6 *) Subset("sub", 4, <<>>,
                     <<Item("r1", 10), Item("r4", 11), Item("r5", 12),
                       Item("r6", 13), Item("r7", 14), Item("r8", 15),
                       Item("obs", 16)>>),
      (* 7 *) StaticResource("r1", 4, "GET", "http://h/r1"),
      (* 8 *) StaticResource("r2", 4, "MANUAL", NoneStr),
      (* 9 *) DynamicResource("wx", "csv", 4, "GET", "http://h/live"),
      (* 10 *) StaticResource("r1", 6, "GET", "http://h/sub/r1"),
      (* 11 *) StaticResource("r4", 6, "FTP", "ftp://h/r4"),
      (* 12 *) StaticResource("r5", 6, "MANUAL", "http://h/r5"),
      (* 13 *) StaticResource("r6", 6, "NONE", "http://h/r6"),
      (* 14 *) StaticResource("r7", 6, "GET", ""),
      (* 15 *) StaticResource("r8", 6, "GET", NoneStr),
      (* 16 *) DynamicResource("obs", "json", 6, "FTP", "ftp://h/obs"),
      (* 17 *) StaticResource("r9", 5, "GET", "http://h/r9")
    >> \o
    IF remotes
    THEN <<
      (* 18 *) RemoteSubset("rs1", 5, "FTP", "ftp://h/d"),
      (* 19 *) RemoteSubset("rs2", 5, "FTP", "ftp://g/d"),
      (* 20 *) RemoteSubset("rs3", 5, "GET", "http://h/f"),
      (* 21 *) RemoteSubset("rs4", 5, "MANUAL", "ftp://h/g"),
      (* 22 *) RemoteSubset("rs5", 5, "NONE", "ftp://h/i"),
      (* 23 *) DynamicResource("log", "txt", 5, "GET", NoneStr)
    >>
    ELSE <<>>

\* parse_datasource_file: datasources[name] = ds_spec
FetchSpec == <<Item("ab", 1)>>

---------------------------------------------------------------------------
(* Qualifier resolution *)

\* check_dict, line 206-208: dict_set = {k.lower() if not match_case else k: k
\* for k in d}; check = dict_set.get(key).  A later item of d replaces an
\* earlier one under the same dict_set key.  The key looked up is used as
\* given.
DictSetGet(key, d, mc) ==
    LET dsk(i) == IF mc THEN d[i].k ELSE Lower(d[i].k)
        hits == {i \in DOMAIN d : dsk(i) = key}
    IN IF hits = {} THEN NoneStr
       ELSE d[CHOOSE i \in hits : \A j \in hits : j <= i].k

check_dict(key, d, mc) ==
    LET check == DictSetGet(key, d, mc)
    IN IF check # NoneStr THEN DictGet(d, check) ELSE NoneId

\* The outcome of a traverse call: the node returned (or NoneId), the
\* traverse invocations made, and the check_dict lookups that found a node.
Outcome(ret, cs, ms) == [ret |-> ret, calls |-> cs, matches |-> ms]
Called(n, stack) == [node |-> n, remaining |-> Len(stack)]
Matched(seg, d, mc, v) == [seg |-> seg, key |-> DictSetGet(seg, d, mc), node |-> v]
Within(call, ms, o) == Outcome(o.ret, <<call>> \o o.calls, ms \o o.matches)

RECURSIVE traverse(_, _, _)

\* Resource.traverse
ResourceTraverse(n, stack, mc) ==
    Outcome(n, <<Called(n, stack)>>, <<>>)

\* mutant of RemoteSubsetTraverse: returns self whatever is left on the
\* stack, as Resource.traverse does
RemoteSubsetTraverseReturnsSelf(n, stack, mc) ==
    Outcome(n, <<Called(n, stack)>>, <<>>)

\* RemoteSubset.traverse
RemoteSubsetTraverse(n, stack, mc) ==
    IF Len(stack) = 0
    THEN Outcome(n, <<Called(n, stack)>>, <<>>)
    ELSE Outcome(NoneId, <<Called(n, stack)>>, <<>>)

\* Subset.traverse
SubsetTraverse(n, stack, mc) ==
    IF Len(stack) = 0 THEN Outcome(n, <<Called(n, stack)>>, <<>>)
    ELSE
      LET target == Head(stack)
          rest == Tail(stack)
          have_file == check_dict(target, nodes[n].resources, mc)
          have_dir == check_dict(target, nodes[n].subsets, mc)
      IN IF have_file # NoneId /\ Len(rest) = 0
         THEN Outcome(have_file, <<Called(n, stack)>>,
                      <<Matched(target, nodes[n].resources, mc, have_file)>>)
         ELSE IF Len(rest) > 0
         THEN Outcome(NoneId, <<Called(n, stack)>>,
                      IF have_file # NoneId
                      THEN <<Matched(target, nodes[n].resources, mc, have_file)>>
                      ELSE <<>>)
         ELSE IF have_dir # NoneId
         THEN Within(Called(n, stack),
                     <<Matched(target, nodes[n].subsets, mc, have_dir)>>,
                     traverse(have_dir, rest, mc))
         ELSE Outcome(NoneId, <<Called(n, stack)>>, <<>>)

\* Dataset.traverse
DatasetTraverse(n, stack, mc) ==
    Within(Called(n, stack), <<>>, traverse(nodes[n].org, stack, mc))

\* mutant of DatasourceTraverse: the child Datasets are tried before the
\* child Datasources
DatasourceTraverseDatasetsFirst(n, stack, mc) ==
    IF Len(stack) = 0 THEN Outcome(n, <<Called(n, stack)>>, <<>>)
    ELSE
      LET target == Head(stack)
          rest == Tail(stack)
          have_dsource == check_dict(target, nodes[n].datasources, mc)
          have_dset == check_dict(target, nodes[n].datasets, mc)
      IN IF have_dset # NoneId
         THEN Within(Called(n, stack),
                     <<Matched(target, nodes[n].datasets, mc, have_dset)>>,
                     traverse(have_dset, rest, mc))
         ELSE IF have_dsource # NoneId
         THEN Within(Called(n, stack),
                     <<Matched(target, nodes[n].datasources, mc, have_dsource)>>,
                     traverse(have_dsource, rest, FALSE))
         ELSE Outcome(NoneId, <<Called(n, stack)>>, <<>>)

\* Datasource.traverse; the child Datasource is traversed with the default
\* match_case (False), line 697
DatasourceTraverse(n, stack, mc) ==
    IF Len(stack) = 0 THEN Outcome(n, <<Called(n, stack)>>, <<>>)
    ELSE
      LET target == Head(stack)
          rest == Tail(stack)
          have_dsource == check_dict(target, nodes[n].datasources, mc)
          have_dset == check_dict(target, nodes[n].datasets, mc)
      IN IF have_dsource # NoneId
         THEN Within(Called(n, stack),
                     <<Matched(target, nodes[n].datasources, mc, have_dsource)>>,
                     traverse(have_dsource, rest, FALSE))
         ELSE IF have_dset # NoneId
         THEN Within(Called(n, stack),
                     <<Matched(target, nodes[n].datasets, mc, have_dset)>>,
                     traverse(have_dset, rest, mc))
         ELSE Outcome(NoneId, <<Called(n, stack)>>, <<>>)

\* dynamic dispatch of node.traverse(traverse_stack, match_case)
traverse(n, stack, mc) ==
    CASE nodes[n].kind = "Datasource" -> DatasourceTraverse(n, stack, mc)
      [] nodes[n].kind = "Dataset" -> DatasetTraverse(n, stack, mc)
      [] nodes[n].kind = "Subset" -> SubsetTraverse(n, stack, mc)
      [] nodes[n].kind = "RemoteSubset" -> RemoteSubsetTraverse(n, stack, mc)
      [] nodes[n].kind \in {"StaticResource", "DynamicResource"} ->
            ResourceTraverse(n, stack, mc)

\* retrieve_by_qualifier; qual_parts is qualifier.split(delimiter), which is
\* never empty
retrieve_by_qualifier(collection, qual_parts, mc) ==
    LET first == Head(qual_parts)
        qual_stack == Tail(qual_parts)
        have_first == check_dict(first, collection, mc)
    IN IF have_first = NoneId THEN Outcome(NoneId, <<>>, <<>>)
       ELSE IF Len(qual_stack) = 0
       THEN Outcome(have_first, <<>>, <<Matched(first, collection, mc, have_first)>>)
       ELSE LET o == traverse(have_first, qual_stack, mc)
            IN Outcome(o.ret, o.calls,
                       <<Matched(first, collection, mc, have_first)>> \o o.matches)

---------------------------------------------------------------------------
(* The apply walk *)

Values(d) == [i \in DOMAIN d |-> d[i].v]

\* get_traversable_children of each class
DatasourceChildren(n) == Values(nodes[n].datasources) \o Values(nodes[n].datasets)
DatasetChildren(n) == <<nodes[n].org>>
SubsetChildren(n) == Values(nodes[n].subsets) \o Values(nodes[n].resources)
RemoteSubsetChildren(n) == <<>>
ResourceChildren(n) == <<>>

get_traversable_children(n) ==
    CASE nodes[n].kind = "Datasource" -> DatasourceChildren(n)
      [] nodes[n].kind = "Dataset" -> DatasetChildren(n)
      [] nodes[n].kind = "Subset" -> SubsetChildren(n)
      [] nodes[n].kind = "RemoteSubset" -> RemoteSubsetChildren(n)
      [] nodes[n].kind \in {"StaticResource", "DynamicResource"} ->
            ResourceChildren(n)

\* one activation of Traversable.apply: the node, its depth, and how far the
\* activation has got (0: fn not yet called; k > 0: the next child is the
\* k-th)
Frame(n, depth) == [node |-> n, depth |-> depth, next |-> 0]

\* mutant of ChildFrame: the child is walked at its parent's depth
ChildFrameSameDepth(f, child) == Frame(child, f.depth)

\* child.apply(fn, depth=depth + 1)
ChildFrame(f, child) == Frame(child, f.depth + 1)

---------------------------------------------------------------------------
(* Paths *)

RECURSIVE build_path(_)

\* mutant of build_parent_path: a nested Datasource answers with its
\* parent's parent path, leaving out the parent's own segment
build_parent_path_skips_parent(n) ==
    IF nodes[n].kind = "Datasource"
    THEN IF nodes[n].parent = NoneId
         THEN [raised |-> FALSE, value |-> data_context.root_path]
         ELSE IF nodes[nodes[n].parent].parent = NoneId
         THEN [raised |-> FALSE, value |-> data_context.root_path]
         ELSE build_path(nodes[nodes[n].parent].parent)
    ELSE IF nodes[n].parent = NoneId THEN Raised
         ELSE build_path(nodes[n].parent)

\* build_parent_path of each class: the parent's build_path, and for a
\* Datasource without parent the root_path of its DataContext.  On any other
\* node without parent, self.parent.build_path() raises AttributeError.
build_parent_path(n) ==
    IF nodes[n].kind = "Datasource"
    THEN IF nodes[n].parent = NoneId
         THEN [raised |-> FALSE, value |-> data_context.root_path]
         ELSE build_path(nodes[n].parent)
    ELSE IF nodes[n].parent = NoneId THEN Raised
         ELSE build_path(nodes[n].parent)

\* build_path of each class: self.build_parent_path() / self.path
build_path(n) == PathDiv(build_parent_path(n), nodes[n].path)

---------------------------------------------------------------------------
(* Validation *)

\* mutant of validate_file: the size comparison is made only under
\* validate_size
validate_file_honours_validate_size(file_size, remote_filesize, file_hash, log, validate_size) ==
    IF file_size = NoFile THEN [exists |-> FALSE, is_valid |-> "False"]
    ELSE IF remote_filesize # NoneInt /\ validate_size
    THEN IF file_size = remote_filesize
         THEN [exists |-> TRUE, is_valid |-> "True"]
         ELSE [exists |-> TRUE, is_valid |-> "False"]
    ELSE [exists |-> TRUE, is_valid |-> "None"]

\* validate_file; file_size is what exists(file_path) and getsize(file_path)
\* answer: NoFile when the file is absent
validate_file(file_size, remote_filesize, file_hash, log, validate_size) ==
    IF file_size = NoFile THEN [exists |-> FALSE, is_valid |-> "False"]
    ELSE IF remote_filesize # NoneInt
    THEN IF file_size = remote_filesize
         THEN [exists |-> TRUE, is_valid |-> "True"]
         ELSE [exists |-> TRUE, is_valid |-> "False"]
    ELSE [exists |-> TRUE, is_valid |-> "None"]

\* truth value of an Optional[bool]
Truthy(b) == b = "True"

\* mutant of check_validation_policy: an existing file that is not known to
\* be valid is downloaded again, whatever reload_unconfirmable says
check_validation_policy_not_valid(exists, is_valid, reload_unconfirmable) ==
    IF ~exists THEN TRUE
    ELSE IF exists /\ Truthy(is_valid) THEN FALSE
    ELSE IF exists /\ ~Truthy(is_valid) THEN TRUE
    ELSE FALSE

\* check_validation_policy: TRUE is "download", FALSE is "skip"
check_validation_policy(exists, is_valid, reload_unconfirmable) ==
    IF ~exists THEN TRUE
    ELSE IF exists /\ Truthy(is_valid) THEN FALSE
    ELSE IF exists /\ is_valid = "False" THEN TRUE
    ELSE IF exists /\ is_valid = "None"
    THEN IF reload_unconfirmable = TRUE THEN TRUE ELSE FALSE
    ELSE FALSE

---------------------------------------------------------------------------
(* Retrieval.  The local files, the directories made, the network calls    *)
(* and the calls of can_download and download are threaded through the     *)
(* operators below as one record w; an operator answers with the value     *)
(* returned or the exception raised, and the w it leaves.                  *)

World ==
    [files |-> files, dirs |-> dirs, net |-> net, writes |-> writes,
     cd |-> cd, dl |-> dl, snap |-> snap]

Returned(ret, w) == [ret |-> ret, exc |-> NoneStr, w |-> w]
Threw(e, w) == [ret |-> NoneStr, exc |-> e, w |-> w]

\* what exists(file_path) and getsize(file_path) answer
LocalSize(fs, file_path) ==
    IF file_path \in DOMAIN fs THEN fs[file_path] ELSE NoFile

\* open(path, "wb"): the file exists and is empty
Opened(n, path, w) ==
    [w EXCEPT !.files = (path :> 0) @@ @,
              !.writes = Append(@, [node |-> n, path |-> path])]

\* the body has been written to the open file
Written(path, size, w) == [w EXCEPT !.files = (path :> size) @@ @]

\* one call of the HTTP client: whether it got through, the Content-Length
\* of the response and the size of the body behind it
HttpCall(n, call, url, ok, length, body) ==
    [node |-> n, call |-> call, url |-> url, ok |-> ok, length |-> length,
     body |-> body]

\* what the server at a source does when asked: whether the probe and the
\* fetch get through, the size of the body, whether Content-Length is sent
HttpEnvs ==
    [head : {"ok", "fail"}, get : {"ok", "fail", "partial"},
     size : 0 .. MaxSize, reports : BOOLEAN]

ContentLength(env) == IF env.reports THEN env.size ELSE NoneInt

\* mutant of get_chunked: the destination is opened and the call returns
\* with the body unwritten
get_chunked_leaves_empty(n, source_url, dst_path, env, w) ==
    IF env.get = "fail"
    THEN Threw("ConnectionError",
               [w EXCEPT !.net =
                   Append(@, HttpCall(n, "get", source_url, FALSE, NoneInt, NoneInt))])
    ELSE Returned("None",
                  Opened(n, dst_path,
                         [w EXCEPT !.net =
                             Append(@, HttpCall(n, "get", source_url, TRUE,
                                                ContentLength(env), env.size))]))

\* get_chunked: requests.get (which raises on a transport failure), then the
\* body is streamed into open(dst_path, "wb"); a failure of the stream
\* leaves the file opened and the body unwritten
get_chunked(n, source_url, dst_path, env, w) ==
    IF env.get = "fail"
    THEN Threw("ConnectionError",
               [w EXCEPT !.net =
                   Append(@, HttpCall(n, "get", source_url, FALSE, NoneInt, NoneInt))])
    ELSE LET got == [w EXCEPT !.net =
                        Append(@, HttpCall(n, "get", source_url, TRUE,
                                           ContentLength(env), env.size))]
         IN IF env.get = "partial"
            THEN Threw("ConnectionError",
                       [Opened(n, dst_path, got) EXCEPT !.net =
                           Append(@, HttpCall(n, "iter_content", source_url, FALSE,
                                              NoneInt, NoneInt))])
            ELSE Returned("None", Written(dst_path, env.size, Opened(n, dst_path, got)))

\* mutant of RetrieveTypeIsGet: every retrieve type but MANUAL and NONE
\* takes the GET branch
RetrieveTypeIsNotManual(n) == nodes[n].retrieve_type \notin {"MANUAL", "NONE"}

\* line 300
RetrieveTypeIsGet(n) == nodes[n].retrieve_type = "GET"

\* Resource.download up to its return or raise.  parent_dir and name are
\* NonePath when the argument is left at None.
ResourceDownloadBody(n, parent_dir_arg, validate_existing, reload_unconfirmable, name_arg, env, w) ==
    LET name == IF name_arg = NonePath THEN nodes[n].path ELSE name_arg
        parent_dir == IF parent_dir_arg = NonePath THEN build_parent_path(n)
                      ELSE [raised |-> FALSE, value |-> parent_dir_arg]
    IN IF parent_dir.raised THEN Threw("AttributeError", w)
       ELSE IF RetrieveTypeIsGet(n)
       THEN IF nodes[n].source = NoneStr \/ nodes[n].source = ""
            THEN Returned("False", w)
            ELSE
              LET made == [w EXCEPT !.dirs = @ \cup {parent_dir.value}]
                  file_path == PathDiv(parent_dir, name)
              IN IF file_path.raised THEN Threw("TypeError", made)
                 ELSE IF env.head = "fail"
                 THEN Threw("ConnectionError",
                            [made EXCEPT !.net =
                                Append(@, HttpCall(n, "head", nodes[n].source, FALSE,
                                                   NoneInt, NoneInt))])
                 ELSE
                   LET probed == [made EXCEPT !.net =
                                     Append(@, HttpCall(n, "head", nodes[n].source, TRUE,
                                                        ContentLength(env), env.size))]
                       \* line 321
                       filesize_remote == NoneInt
                       v == validate_file(LocalSize(w.files, file_path.value),
                                          filesize_remote, NoneStr, TRUE, TRUE)
                       do_download == check_validation_policy(v.exists, v.is_valid,
                                                              reload_unconfirmable)
                   IN IF validate_existing /\ ~do_download
                      THEN Returned(IF v.exists THEN "True" ELSE "False", probed)
                      ELSE LET g == get_chunked(n, nodes[n].source, file_path.value,
                                                env, probed)
                           IN IF g.exc # NoneStr THEN g ELSE Returned("True", g.w)
       ELSE Returned("False", w)

\* the record of one download call
DownloadCall(n, validate_existing, reload_unconfirmable, name, r) ==
    [node |-> n, validate_existing |-> validate_existing,
     reload_unconfirmable |-> reload_unconfirmable, name |-> name,
     ret |-> r.ret, exc |-> r.exc]

\* Resource.download
ResourceDownload(n, parent_dir_arg, validate_existing, reload_unconfirmable, name_arg, env, w) ==
    LET r == ResourceDownloadBody(n, parent_dir_arg, validate_existing,
                                  reload_unconfirmable, name_arg, env, w)
    IN [r EXCEPT !.w.dl = Append(@, DownloadCall(n, validate_existing,
                                                 reload_unconfirmable, name_arg, r))]

\* the instants datetime.now() answers with
Instant(year, month, day, hour, minute) ==
    [year |-> year, month |-> month, day |-> day, hour |-> hour, minute |-> minute]
Timestamps ==
    {Instant(2023, 5, 1, 14, 7), Instant(2023, 12, 31, 0, 59),
     Instant(2024, 10, 9, 9, 0)}

\* "%02d" and "%04d"
Pad2(k) == IF k < 10 THEN "0" \o ToString(k) ELSE ToString(k)
Pad4(k) ==
    IF k < 10 THEN "000" \o ToString(k)
    ELSE IF k < 100 THEN "00" \o ToString(k)
    ELSE IF k < 1000 THEN "0" \o ToString(k)
    ELSE ToString(k)

\* timestamp.strftime('%Y_%m_%d_%H%M')
strftime(timestamp) ==
    Pad4(timestamp.year) \o "_" \o Pad2(timestamp.month) \o "_"
        \o Pad2(timestamp.day) \o "_" \o Pad2(timestamp.hour) \o Pad2(timestamp.minute)

\* mutant of format_name: the hour and the minute are joined by "_"
format_name_splits_time(n, timestamp) ==
    nodes[n].name_prefix \o "." \o
        (Pad4(timestamp.year) \o "_" \o Pad2(timestamp.month) \o "_"
            \o Pad2(timestamp.day) \o "_" \o Pad2(timestamp.hour) \o "_"
            \o Pad2(timestamp.minute))
        \o "." \o nodes[n].extension

\* DynamicResource.format_name
format_name(n, timestamp) ==
    nodes[n].name_prefix \o "." \o strftime(timestamp) \o "." \o nodes[n].extension

\* DynamicResource.retrieve_snapshot; it returns nothing
retrieve_snapshot(n, parent_dir_arg, timestamp, env, w) ==
    LET file_name == format_name(n, timestamp)
        taken == [w EXCEPT !.snap = [node |-> n, timestamp |-> timestamp,
                                     file_name |-> file_name]]
        r == ResourceDownload(n, parent_dir_arg, TRUE, FALSE, <<file_name>>, env, taken)
    IN IF r.exc # NoneStr THEN r ELSE Returned("None", r.w)

\* Downloadable.can_download, inherited by Datasource and Dataset: pass
DownloadableCanDownload(n) == "None"

\* Resource.can_download
ResourceCanDownload(n) ==
    IF nodes[n].source # NoneStr /\ nodes[n].retrieve_type # NoneStr
          /\ nodes[n].path # NonePath
    THEN "True" ELSE "False"

\* DynamicResource.can_download
DynamicResourceCanDownload(n) ==
    IF nodes[n].source # NoneStr /\ nodes[n].retrieve_type # NoneStr
    THEN "True" ELSE "False"

\* mutant of can_download: a Resource without source can download
can_download_without_source(n) ==
    CASE nodes[n].kind \in {"Datasource", "Dataset"} -> DownloadableCanDownload(n)
      [] nodes[n].kind \in {"StaticResource", "DynamicResource"} ->
            IF nodes[n].retrieve_type # NoneStr THEN "True" ELSE "False"
      [] nodes[n].kind \in {"Subset", "RemoteSubset"} -> "AttributeError"

\* tv.can_download(): Subset and RemoteSubset are not Downloadable and
\* define no can_download, so the attribute lookup raises AttributeError
can_download(n) ==
    CASE nodes[n].kind \in {"Datasource", "Dataset"} -> DownloadableCanDownload(n)
      [] nodes[n].kind = "StaticResource" -> ResourceCanDownload(n)
      [] nodes[n].kind = "DynamicResource" -> DynamicResourceCanDownload(n)
      [] nodes[n].kind \in {"Subset", "RemoteSubset"} -> "AttributeError"

\* isinstance(tv, Downloadable)
IsDownloadable(n) ==
    nodes[n].kind \in {"Datasource", "Dataset", "StaticResource", "DynamicResource"}

\* tv.can_download() as fn calls it, recorded
AskCanDownload(n, w) ==
    LET c == can_download(n)
        asked == [w EXCEPT !.cd = Append(@, [node |-> n, result |-> c])]
    IN IF c = "AttributeError" THEN Threw("AttributeError", asked)
       ELSE Returned(c, asked)

\* mutant of wrap_apply_fn: the download branch takes a DynamicResource too
wrap_apply_fn_downloads_dynamic(tv, depth, timestamp, env, w) ==
    LET dyn ==
          IF flags.download_dynamic /\ nodes[tv].kind = "DynamicResource"
          THEN LET c == AskCanDownload(tv, w)
               IN IF c.ret = "True"
                  THEN retrieve_snapshot(tv, NonePath, timestamp, env, c.w)
                  ELSE c
          ELSE Returned("None", w)
    IN IF dyn.exc # NoneStr THEN dyn
       ELSE IF flags.download
             /\ (IsDownloadable(tv) \/ nodes[tv].kind = "RemoteSubset")
       THEN LET c == AskCanDownload(tv, dyn.w)
            IN IF c.exc # NoneStr THEN c
               ELSE IF c.ret = "True"
               THEN ResourceDownload(tv, NonePath, TRUE, FALSE, NonePath, env, c.w)
               ELSE c
       ELSE dyn

\* the fn of wrap_apply, lines 59-77.  tv.download(level=depth) is reached
\* with can_download() true only, which is on a StaticResource here; the
\* process branch asks can_process(), which is Processable's pass on every
\* class, and does nothing.
wrap_apply_fn(tv, depth, timestamp, env, w) ==
    LET dyn ==
          IF flags.download_dynamic /\ nodes[tv].kind = "DynamicResource"
          THEN LET c == AskCanDownload(tv, w)
               IN IF c.ret = "True"
                  THEN retrieve_snapshot(tv, NonePath, timestamp, env, c.w)
                  ELSE c
          ELSE Returned("None", w)
    IN IF dyn.exc # NoneStr THEN dyn
       ELSE IF flags.download
             /\ (IsDownloadable(tv) \/ nodes[tv].kind = "RemoteSubset")
             /\ nodes[tv].kind # "DynamicResource"
       THEN LET c == AskCanDownload(tv, dyn.w)
            IN IF c.exc # NoneStr THEN c
               ELSE IF c.ret = "True"
               THEN ResourceDownload(tv, NonePath, TRUE, FALSE, NonePath, env, c.w)
               ELSE c
       ELSE dyn

---------------------------------------------------------------------------
\* the segments qualifiers are made of
SegNames == {"ab", "AB", "Ab", "cd", "CD", "ef"}

RECURSIVE SeqsUpTo(_, _)
SeqsUpTo(S, n) ==
    IF n = 0 THEN {<<>>}
    ELSE LET shorter == SeqsUpTo(S, n - 1)
         IN shorter \cup {Append(q, x) : q \in shorter, x \in S}

Qualifiers == SeqsUpTo(SegNames, MaxQualLen) \ {<<>>}

---------------------------------------------------------------------------
(* Initial states *)

InitTree(params, roots) ==
    /\ \E p \in params : nodes = TreeNodes(p) /\ spec = TreeSpec(p)
    /\ \E r \in roots : data_context = [root_path |-> r]

InitRest ==
    /\ op = "init"
    /\ qualifier = <<>>
    /\ match_case = FALSE
    /\ retrieved = NoneId
    /\ calls = <<>>
    /\ matches = <<>>
    /\ apply_root = NoneId
    /\ apply_stack = <<>>
    /\ visits = <<>>
    /\ built = [node |-> NoneId, raised |-> FALSE, value |-> <<>>]
    /\ vf_args = [remote_filesize |-> NoneInt, file_hash |-> NoneStr,
                  log |-> TRUE, validate_size |-> TRUE]
    /\ vf_result = [exists |-> FALSE, is_valid |-> "None"]
    /\ cvp_args = [exists |-> FALSE, is_valid |-> "None",
                   reload_unconfirmable |-> TRUE]
    /\ cvp_result = FALSE

\* nothing has been asked of the network or written, no qualifier given
InitIdle ==
    /\ net = <<>>
    /\ cd = <<>>
    /\ dl = <<>>
    /\ writes = <<>>
    /\ dirs = {}
    /\ ftp = NoSession
    /\ snap = [node |-> NoneId, timestamp |-> <<>>, file_name |-> NoneStr]
    /\ exc = NoneStr
    /\ qualifier_args = <<>>
    /\ retrieved_dict = <<>>
    /\ applied = <<>>
    /\ gc = NoChunks
    /\ ncalls = 0

\* no flag given, no local file
InitNoFetch ==
    /\ InitIdle
    /\ flags = [download |-> FALSE, download_dynamic |-> FALSE]
    /\ files = <<>>

\* trees whose names are all relative, under one root path
RelativeTrees == {p \in TreeParams : ~p.absolute}

Init ==
    /\ InitTree(RelativeTrees, {<<"data">>})
    /\ InitRest
    /\ InitNoFetch
    /\ local_file = NoFile

---------------------------------------------------------------------------
(* Actions: qualifier resolution *)

\* one call retrieve_by_qualifier(spec, qualifier, match_case=mc) on the
\* constructed tree; the call reads the tree only, so a run makes one call
RetrieveByQualifier(q, mc) ==
    LET o == retrieve_by_qualifier(spec, q, mc)
    IN /\ op = "init"
       /\ op' = "retrieve_by_qualifier"
       /\ qualifier' = q
       /\ match_case' = mc
       /\ retrieved' = o.ret
       /\ calls' = o.calls
       /\ matches' = o.matches
       /\ UNCHANGED <<fetch_vars, args_vars, chunk_vars, seq_vars, tree_vars, apply_vars, built, policy_vars>>

NextResolve ==
    /\ op = "init"
    /\ \E q \in Qualifiers, mc \in BOOLEAN : RetrieveByQualifier(q, mc)

SpecResolve == Init /\ [][NextResolve]_vars

---------------------------------------------------------------------------
(* Actions: the apply walk.  fn records its invocation.                    *)

Top == apply_stack[Len(apply_stack)]
SetTop(f) == [apply_stack EXCEPT ![Len(apply_stack)] = f]

\* node.apply(fn) is called on a node of the constructed tree
StartApply(r) ==
    /\ op = "init"
    /\ op' = "apply"
    /\ apply_root' = r
    /\ apply_stack' = <<Frame(r, 0)>>
    /\ visits' = <<>>
    /\ UNCHANGED <<fetch_vars, args_vars, chunk_vars, seq_vars, tree_vars, resolve_vars, built, policy_vars>>

\* line 162: fn(self, depth=depth)
ApplyCallFn ==
    /\ op = "apply"
    /\ Top.next = 0
    /\ visits' = Append(visits, [node |-> Top.node, depth |-> Top.depth])
    /\ apply_stack' = SetTop([Top EXCEPT !.next = 1])
    /\ UNCHANGED <<fetch_vars, args_vars, chunk_vars, seq_vars, op, apply_root, tree_vars, resolve_vars, built, policy_vars>>

\* mutant of ApplyChild: the loop takes the child out of the parent's maps
ApplyChildPopsChild ==
    LET child == get_traversable_children(Top.node)[Top.next]
        without(d) == [i \in DOMAIN d |-> IF d[i].v = child THEN Item(d[i].k, NoneId)
                                          ELSE d[i]]
    IN /\ op = "apply"
       /\ Top.next >= 1
       /\ Top.next <= Len(get_traversable_children(Top.node))
       /\ child # NoneId
       /\ apply_stack' = Append(SetTop([Top EXCEPT !.next = Top.next + 1]),
                                ChildFrame(Top, child))
       /\ nodes' = [nodes EXCEPT ![Top.node].datasources = without(@),
                                 ![Top.node].datasets = without(@),
                                 ![Top.node].subsets = without(@),
                                 ![Top.node].resources = without(@)]
       /\ UNCHANGED <<fetch_vars, args_vars, chunk_vars, seq_vars, op, apply_root,
                      visits, spec, data_context, resolve_vars, built, policy_vars>>

\* lines 164-165: the loop enters its next child
ApplyChild ==
    /\ op = "apply"
    /\ Top.next >= 1
    /\ Top.next <= Len(get_traversable_children(Top.node))
    /\ get_traversable_children(Top.node)[Top.next] # NoneId
    /\ apply_stack' =
          Append(SetTop([Top EXCEPT !.next = Top.next + 1]),
                 ChildFrame(Top, get_traversable_children(Top.node)[Top.next]))
    /\ UNCHANGED <<fetch_vars, args_vars, chunk_vars, seq_vars, op, apply_root, visits, tree_vars, resolve_vars, built, policy_vars>>

\* the loop is exhausted and the activation returns
ApplyReturn ==
    /\ op = "apply"
    /\ Top.next > Len(get_traversable_children(Top.node))
    /\ apply_stack' = SubSeq(apply_stack, 1, Len(apply_stack) - 1)
    /\ op' = IF Len(apply_stack) = 1 THEN "applied" ELSE "apply"
    /\ UNCHANGED <<fetch_vars, args_vars, chunk_vars, seq_vars, apply_root, visits, tree_vars, resolve_vars, built, policy_vars>>

NextWalk ==
    \/ \E r \in DOMAIN nodes : StartApply(r)
    \/ ApplyCallFn
    \/ ApplyChild
    \/ ApplyReturn

SpecWalk == Init /\ [][NextWalk]_vars

---------------------------------------------------------------------------
(* Actions: build_path *)

BuildPath(n) ==
    /\ op = "init"
    /\ op' = "build_path"
    /\ built' = [node |-> n, raised |-> build_path(n).raised,
                 value |-> build_path(n).value]
    /\ UNCHANGED <<fetch_vars, args_vars, chunk_vars, seq_vars, tree_vars, resolve_vars, apply_vars, policy_vars>>

NextPath ==
    /\ op = "init"
    /\ \E n \in DOMAIN nodes : BuildPath(n)

InitPath ==
    /\ InitTree(TreeParams, RootPaths)
    /\ InitRest
    /\ InitNoFetch
    /\ local_file = NoFile

SpecPath == InitPath /\ [][NextPath]_vars

---------------------------------------------------------------------------
(* Actions: validation *)

Sizes == 0 .. MaxSize

\* validate_file(file_path, remote_filesize=..., file_hash=..., log=...,
\* validate_size=...) on the local file
ValidateFile(remote_filesize, file_hash, log, validate_size) ==
    /\ op = "init"
    /\ op' = "validate_file"
    /\ vf_args' = [remote_filesize |-> remote_filesize, file_hash |-> file_hash,
                   log |-> log, validate_size |-> validate_size]
    /\ vf_result' = validate_file(local_file, remote_filesize, file_hash, log,
                                  validate_size)
    /\ UNCHANGED <<fetch_vars, args_vars, chunk_vars, seq_vars, tree_vars, resolve_vars, apply_vars, built, local_file,
                   cvp_args, cvp_result>>

\* check_validation_policy(exists, is_valid, reload_unconfirmable=...)
CheckValidationPolicy(exists, is_valid, reload_unconfirmable) ==
    /\ op = "init"
    /\ op' = "check_validation_policy"
    /\ cvp_args' = [exists |-> exists, is_valid |-> is_valid,
                    reload_unconfirmable |-> reload_unconfirmable]
    /\ cvp_result' = check_validation_policy(exists, is_valid, reload_unconfirmable)
    /\ UNCHANGED <<fetch_vars, args_vars, chunk_vars, seq_vars, tree_vars, resolve_vars, apply_vars, built, local_file,
                   vf_args, vf_result>>

\* lines 323-332 and 567-576: the policy is asked about the pair
\* validate_file returned
CheckValidated(reload_unconfirmable) ==
    /\ op = "validate_file"
    /\ op' = "check_validated"
    /\ cvp_args' = [exists |-> vf_result.exists, is_valid |-> vf_result.is_valid,
                    reload_unconfirmable |-> reload_unconfirmable]
    /\ cvp_result' = check_validation_policy(vf_result.exists, vf_result.is_valid,
                                             reload_unconfirmable)
    /\ UNCHANGED <<fetch_vars, args_vars, chunk_vars, seq_vars, tree_vars, resolve_vars, apply_vars, built, local_file,
                   vf_args, vf_result>>

NextPolicy ==
    \/ \E rs \in Sizes \cup {NoneInt}, h \in {NoneStr, "sha"},
          l \in BOOLEAN, vs \in BOOLEAN : ValidateFile(rs, h, l, vs)
    \/ \E e \in BOOLEAN, v \in {"True", "False", "None"}, r \in BOOLEAN :
          CheckValidationPolicy(e, v, r)
    \/ \E r \in BOOLEAN : CheckValidated(r)

InitPolicy ==
    /\ InitTree({[scheme |-> "lower", collide |-> FALSE, absolute |-> FALSE]},
                {<<"data">>})
    /\ InitRest
    /\ InitNoFetch
    /\ local_file \in Sizes \cup {NoFile}

SpecPolicy == InitPolicy /\ [][NextPolicy]_vars

---------------------------------------------------------------------------
(* Actions: the apply walk with the fn of wrap_apply *)

SetWorld(w) ==
    /\ files' = w.files
    /\ dirs' = w.dirs
    /\ net' = w.net
    /\ writes' = w.writes
    /\ cd' = w.cd
    /\ dl' = w.dl
    /\ snap' = w.snap

\* line 162 with fn = wrap_apply(...): fn(self, depth=depth).  An exception
\* raised in fn is caught nowhere in apply, fn or process_args: it ends the
\* walk.
ApplyWrapFn(timestamp, env) ==
    LET r == wrap_apply_fn(Top.node, Top.depth, timestamp, env, World)
    IN /\ op = "apply"
       /\ Top.next = 0
       /\ visits' = Append(visits, [node |-> Top.node, depth |-> Top.depth])
       /\ SetWorld(r.w)
       /\ exc' = r.exc
       /\ op' = IF r.exc # NoneStr THEN "raised" ELSE "apply"
       /\ apply_stack' = IF r.exc # NoneStr THEN <<>>
                         ELSE SetTop([Top EXCEPT !.next = 1])
       /\ UNCHANGED <<flags, ftp, args_vars, chunk_vars, seq_vars, apply_root, tree_vars, resolve_vars,
                      built, policy_vars>>

\* the servers a walk meets: any outcome of the probe and of the fetch, with
\* or without Content-Length, every body of the largest size
WalkEnvs == {env \in HttpEnvs : env.size = MaxSize}

NextFetch ==
    \/ \E r \in DOMAIN nodes : StartApply(r)
    \/ \E timestamp \in Timestamps, env \in WalkEnvs : ApplyWrapFn(timestamp, env)
    \/ ApplyChild
    \/ ApplyReturn

\* the local files before the run: none, or a file where r1 of the org
\* collection of cd goes
InitFetch ==
    /\ \E remotes \in BOOLEAN : nodes = FetchNodes(remotes)
    /\ spec = FetchSpec
    /\ data_context = [root_path |-> <<"data">>]
    /\ InitRest
    /\ InitIdle
    /\ local_file = NoFile
    /\ flags \in [download : BOOLEAN, download_dynamic : BOOLEAN]
    /\ \E size \in (0 .. MaxSize) \cup {NoFile} :
          files = IF size = NoFile THEN <<>>
                  ELSE (build_path(7).value :> size)

SpecFetch == InitFetch /\ [][NextFetch]_vars

---------------------------------------------------------------------------
(* Actions: download called on one node of the tree *)

\* node.download(validate_existing=..., reload_unconfirmable=...) on a
\* StaticResource or DynamicResource, parent_dir and name left at None
ResourceDownloadCall(n, validate_existing, reload_unconfirmable, env) ==
    LET r == ResourceDownload(n, NonePath, validate_existing, reload_unconfirmable,
                              NonePath, env, World)
    IN /\ nodes[n].kind \in {"StaticResource", "DynamicResource"}
       /\ SetWorld(r.w)
       /\ exc' = r.exc
       /\ op' = IF r.exc # NoneStr THEN "raised" ELSE "returned"
       /\ UNCHANGED <<flags, ftp, args_vars, chunk_vars, seq_vars, tree_vars, resolve_vars, apply_vars,
                      built, policy_vars>>

\* node.retrieve_snapshot() on a DynamicResource
RetrieveSnapshotCall(n, timestamp, env) ==
    LET r == retrieve_snapshot(n, NonePath, timestamp, env, World)
    IN /\ nodes[n].kind = "DynamicResource"
       /\ SetWorld(r.w)
       /\ exc' = r.exc
       /\ op' = IF r.exc # NoneStr THEN "raised" ELSE "returned"
       /\ UNCHANGED <<flags, ftp, args_vars, chunk_vars, seq_vars, tree_vars, resolve_vars, apply_vars,
                      built, policy_vars>>

\* one call of the FTP client
FtpCall(n, call, arg, ok, size) ==
    [node |-> n, call |-> call, url |-> arg, ok |-> ok, length |-> size,
     body |-> NoneInt]

\* the entries ftp.nlst(url.path) can list, and Path(remote_file).name
RemoteFiles == {"/d/x", "/d/y"}
PathName(remote_file) ==
    CASE remote_file = "/d/x" -> "x"
      [] remote_file = "/d/y" -> "y"
Listings == SeqsUpTo(RemoteFiles, MaxListing)

\* what the FTP server does: whether the session is set up and what nlst
\* lists; for one entry, what the size query answers (a size, nothing, or an
\* error reply), the size of the entry, and whether RETR gets through
FtpEnvs == [connect : {"ok", "fail"}, nlst : Listings]
EntryEnvs ==
    [size : {"ok", "none", "fail"}, remote_size : 0 .. MaxSize, retr : {"ok", "fail"}]

\* the with-block of line 553 entered, remote_files listed
Session(n, parent_dir, validate_existing, reload_unconfirmable, remote_files) ==
    [node |-> n, open |-> TRUE, parent_dir |-> parent_dir,
     validate_existing |-> validate_existing,
     reload_unconfirmable |-> reload_unconfirmable,
     remote_files |-> remote_files, next |-> 1, entries |-> <<>>]

\* the record of the RemoteSubset.download call in progress
SessionCall(ret, e) ==
    [node |-> ftp.node, validate_existing |-> ftp.validate_existing,
     reload_unconfirmable |-> ftp.reload_unconfirmable, name |-> NonePath,
     ret |-> ret, exc |-> e]

\* RemoteSubset.download, lines 536-557 and 591-596: up to the first entry of
\* the listing, or to the return when the retrieve type is not FTP
RemoteSubsetDownload(n, validate_existing, reload_unconfirmable, env) ==
    LET parent_dir == build_parent_path(n)
        url == nodes[n].source
        call(ret, e) ==
            [node |-> n, validate_existing |-> validate_existing,
             reload_unconfirmable |-> reload_unconfirmable, name |-> NonePath,
             ret |-> ret, exc |-> e]
    IN /\ nodes[n].kind = "RemoteSubset"
       /\ IF parent_dir.raised
          THEN /\ op' = "raised"
               /\ exc' = "AttributeError"
               /\ dl' = Append(dl, call(NoneStr, "AttributeError"))
               /\ UNCHANGED <<dirs, net, ftp>>
          ELSE IF nodes[n].retrieve_type = "FTP"
          THEN /\ dirs' = dirs \cup {parent_dir.value}
               /\ IF env.connect = "fail"
                  THEN /\ net' = Append(net, FtpCall(n, "connect", url, FALSE, NoneInt))
                       /\ op' = "raised"
                       /\ exc' = "OSError"
                       /\ dl' = Append(dl, call(NoneStr, "OSError"))
                       /\ UNCHANGED ftp
                  ELSE /\ net' = net \o <<FtpCall(n, "connect", url, TRUE, NoneInt),
                                          FtpCall(n, "login", url, TRUE, NoneInt),
                                          FtpCall(n, "nlst", url, TRUE, NoneInt)>>
                       /\ ftp' = Session(n, parent_dir.value, validate_existing,
                                         reload_unconfirmable, env.nlst)
                       /\ op' = "ftp"
                       /\ UNCHANGED <<exc, dl>>
          ELSE /\ op' = "returned"
               /\ dl' = Append(dl, call("None", NoneStr))
               /\ UNCHANGED <<dirs, net, ftp, exc>>
       /\ UNCHANGED <<flags, files, writes, cd, snap, args_vars, chunk_vars, seq_vars, tree_vars,
                      resolve_vars, apply_vars, built, policy_vars>>

\* lines 564-579: whether the loop body goes on to fetch the entry
FetchEntry(validate_existing, local_size, remote_size, reload_unconfirmable) ==
    IF validate_existing
    THEN LET v == validate_file(local_size, remote_size, NoneStr, TRUE, TRUE)
         IN check_validation_policy(v.exists, v.is_valid, reload_unconfirmable)
    ELSE TRUE

\* mutant of AfterSkip: an entry that is skipped ends the loop
AfterSkipBreaks(session) == Len(session.remote_files) + 1

\* line 579, continue: the loop goes on with the next entry
AfterSkip(session) == session.next + 1

\* lines 558-589: one pass of the loop over remote_files.  An error reply to
\* the size query or a failure of RETR raises out of the loop and the call.
RemoteSubsetDownloadEntry(env) ==
    LET n == ftp.node
        remote_file == ftp.remote_files[ftp.next]
        file_path == PathDiv([raised |-> FALSE, value |-> ftp.parent_dir],
                             Path(PathName(remote_file))).value
        local_size == LocalSize(files, file_path)
        size_failed == ftp.validate_existing /\ env.size = "fail"
        remote_size == IF ftp.validate_existing /\ env.size = "ok"
                       THEN env.remote_size ELSE NoneInt
        fetch == /\ ~size_failed
                 /\ FetchEntry(ftp.validate_existing, local_size, remote_size,
                               ftp.reload_unconfirmable)
        retr_failed == fetch /\ env.retr = "fail"
        failed == size_failed \/ retr_failed
        sized == IF ftp.validate_existing
                 THEN <<FtpCall(n, "size", remote_file, ~size_failed, remote_size)>>
                 ELSE <<>>
        retrieved_file ==
                 IF fetch
                 THEN <<FtpCall(n, "retr", remote_file, ~retr_failed,
                                IF retr_failed THEN NoneInt ELSE env.remote_size)>>
                 ELSE <<>>
        entry == [remote_file |-> remote_file, path |-> file_path,
                  local_size |-> local_size, asked |-> ftp.validate_existing,
                  remote_size |-> remote_size, fetched |-> fetch,
                  failed |-> failed]
    IN /\ op = "ftp"
       /\ ftp.next <= Len(ftp.remote_files)
       /\ net' = net \o sized \o retrieved_file
       /\ files' = IF fetch
                   THEN (file_path :> (IF retr_failed THEN 0 ELSE env.remote_size)) @@ files
                   ELSE files
       /\ writes' = IF fetch THEN Append(writes, [node |-> n, path |-> file_path])
                    ELSE writes
       /\ ftp' = [ftp EXCEPT !.entries = Append(@, entry),
                             !.open = ~failed,
                             !.next = IF failed THEN @
                                      ELSE IF fetch THEN @ + 1 ELSE AfterSkip(ftp)]
       /\ op' = IF failed THEN "raised" ELSE "ftp"
       /\ exc' = IF failed THEN "ftplib.Error" ELSE exc
       /\ dl' = IF failed THEN Append(dl, SessionCall(NoneStr, "ftplib.Error")) ELSE dl
       /\ UNCHANGED <<flags, dirs, cd, snap, args_vars, chunk_vars, seq_vars, tree_vars, resolve_vars,
                      apply_vars, built, policy_vars>>

\* the listing is exhausted: the with-block closes the session and download
\* returns None
RemoteSubsetDownloadReturn ==
    /\ op = "ftp"
    /\ ftp.next > Len(ftp.remote_files)
    /\ ftp' = [ftp EXCEPT !.open = FALSE]
    /\ op' = "returned"
    /\ dl' = Append(dl, SessionCall("None", NoneStr))
    /\ UNCHANGED <<flags, files, dirs, net, writes, cd, snap, exc, args_vars, chunk_vars, seq_vars,
                   tree_vars, resolve_vars, apply_vars, built, policy_vars>>

NextDownload ==
    \/ /\ op = "init"
       /\ \/ \E n \in DOMAIN nodes, ve \in BOOLEAN, ru \in BOOLEAN, env \in HttpEnvs :
                ResourceDownloadCall(n, ve, ru, env)
          \/ \E n \in DOMAIN nodes, timestamp \in Timestamps, env \in HttpEnvs :
                RetrieveSnapshotCall(n, timestamp, env)
          \/ \E n \in DOMAIN nodes, ve \in BOOLEAN, ru \in BOOLEAN, env \in FtpEnvs :
                RemoteSubsetDownload(n, ve, ru, env)
    \/ \E env \in EntryEnvs : RemoteSubsetDownloadEntry(env)
    \/ RemoteSubsetDownloadReturn

\* the tree with remote collections; a local file may be there where r1 of
\* the org collection of cd goes, and where the entry x of rs1 goes
InitDownload ==
    /\ nodes = FetchNodes(TRUE)
    /\ spec = FetchSpec
    /\ data_context = [root_path |-> <<"data">>]
    /\ InitRest
    /\ InitIdle
    /\ local_file = NoFile
    /\ flags = [download |-> FALSE, download_dynamic |-> FALSE]
    /\ \E size1 \in (0 .. MaxSize) \cup {NoFile}, size2 \in (0 .. MaxSize) \cup {NoFile} :
          files = (IF size1 = NoFile THEN <<>>
                   ELSE (build_path(7).value :> size1))
                  @@ (IF size2 = NoFile THEN <<>>
                      ELSE ((build_parent_path(18).value \o <<"x">>) :> size2))

SpecDownload == InitDownload /\ [][NextDownload]_vars

---------------------------------------------------------------------------
(* Actions: process_args on the qualifiers of the command line *)

\* the qualifiers given on the command line, as qualifier.split(".")
ArgQualifiers ==
    {<<"ab">>, <<"cd">>, <<"ab", "ab">>, <<"ab", "cd">>, <<"ef", "ab">>}

\* args.qualifier (nargs="*", action="append"): one list per -q, holding the
\* qualifiers that follow it; <<>> is no -q at all (None)
QualifierArgs == SeqsUpTo(SeqsUpTo(ArgQualifiers, MaxArgs), MaxArgs)

\* d[k] = v on a dict: a key already there keeps its place
DictSet(d, k, v) ==
    IF \E i \in DOMAIN d : d[i].k = k
    THEN [i \in DOMAIN d |-> IF d[i].k = k THEN Item(k, v) ELSE d[i]]
    ELSE Append(d, Item(k, v))

\* line 104: qualifier_arr[0]
QualifierOf(qualifier_arr) == qualifier_arr[1]

\* lines 103-106 over the rest of args.qualifier; a -q followed by no
\* qualifier is an empty list, and qualifier_arr[0] raises IndexError
RECURSIVE RetrieveEach(_, _)
RetrieveEach(arrs, ret_dict) ==
    IF arrs = <<>> THEN [exc |-> NoneStr, retrieved |-> ret_dict]
    ELSE IF Head(arrs) = <<>> THEN [exc |-> "IndexError", retrieved |-> ret_dict]
    ELSE LET have_ret == retrieve_by_qualifier(spec, QualifierOf(Head(arrs)), FALSE).ret
         IN RetrieveEach(Tail(arrs),
                         IF have_ret # NoneId
                         THEN DictSet(ret_dict, nodes[have_ret].name, have_ret)
                         ELSE ret_dict)

\* the fn invocations of node.apply(fn, depth) to its end
RECURSIVE ApplyVisits(_, _), ApplyVisitsEach(_, _)
ApplyVisitsEach(children, depth) ==
    IF children = <<>> THEN <<>>
    ELSE ApplyVisits(Head(children), depth) \o ApplyVisitsEach(Tail(children), depth)
ApplyVisits(n, depth) ==
    <<[node |-> n, depth |-> depth]>>
        \o ApplyVisitsEach(get_traversable_children(n), depth + 1)

\* process_args, lines 99-113, with no operation flag set: fn is invoked on
\* every node of every walk and does nothing
ProcessArgs(args_qualifier) ==
    LET r == RetrieveEach(args_qualifier, <<>>)
        targets == IF args_qualifier # <<>> THEN Values(r.retrieved)
                   ELSE Values(spec)
    IN /\ qualifier_args' = args_qualifier
       /\ retrieved_dict' = r.retrieved
       /\ IF r.exc # NoneStr
          THEN /\ op' = "raised"
               /\ exc' = r.exc
               /\ applied' = <<>>
               /\ visits' = <<>>
          ELSE /\ op' = "processed"
               /\ exc' = exc
               /\ applied' = targets
               /\ visits' = ApplyVisitsEach(targets, 0)
       /\ UNCHANGED <<flags, files, dirs, net, cd, dl, writes, ftp, snap, tree_vars,
                      resolve_vars, apply_root, apply_stack, built, policy_vars,
                      chunk_vars, seq_vars>>

NextArgs ==
    /\ op = "init"
    /\ \E args_qualifier \in QualifierArgs : ProcessArgs(args_qualifier)

SpecArgs == Init /\ [][NextArgs]_vars

---------------------------------------------------------------------------
(* A tree parsed from a spec with one malformed child.  The parse of a     *)
(* malformed Source, Dataset or collection returns None, and the parent    *)
(* stores what the parse returned under the child's name (a malformed      *)
(* resource raises out of the whole parse instead, and no tree is built).  *)

\* the places of a tree that hold a child Source, Dataset or collection
ChildSlots(ns) ==
    {[node |-> n, field |-> f, index |-> i] :
        n \in DOMAIN ns, f \in {"datasources", "datasets", "subsets"},
        i \in 1 .. MaxChildren}
    \cup {[node |-> n, field |-> "org", index |-> 1] : n \in DOMAIN ns}

IsSlot(ns, slot) ==
    IF slot.field = "org" THEN ns[slot.node].kind = "Dataset"
    ELSE slot.index \in DOMAIN ns[slot.node][slot.field]

\* the tree built when the spec of the child at slot is malformed
ParsedWithMalformed(ns, slot) ==
    IF slot.field = "org"
    THEN [ns EXCEPT ![slot.node].org = NoneId]
    ELSE [ns EXCEPT ![slot.node][slot.field][slot.index].v = NoneId]

\* the nodes the parse has built below and including n
RECURSIVE Parsed(_)
Parsed(n) ==
    IF n = NoneId THEN {}
    ELSE LET children == get_traversable_children(n)
         IN {n} \cup UNION {Parsed(children[i]) : i \in DOMAIN children}

\* lines 164-165 when the next child is None: child.apply raises
\* AttributeError, which nothing catches
ApplyNoneChild ==
    /\ op = "apply"
    /\ Top.next >= 1
    /\ Top.next <= Len(get_traversable_children(Top.node))
    /\ get_traversable_children(Top.node)[Top.next] = NoneId
    /\ op' = "raised"
    /\ exc' = "AttributeError"
    /\ apply_stack' = <<>>
    /\ UNCHANGED <<flags, files, dirs, net, cd, dl, writes, ftp, snap, args_vars, chunk_vars, seq_vars,
                   apply_root, visits, tree_vars, resolve_vars, built, policy_vars>>

NextIngest ==
    \/ \E r \in UNION {Parsed(spec[i].v) : i \in DOMAIN spec} : StartApply(r)
    \/ ApplyCallFn
    \/ ApplyChild
    \/ ApplyNoneChild
    \/ ApplyReturn

InitIngest ==
    /\ \E p \in RelativeTrees :
          /\ spec = TreeSpec(p)
          /\ \E slot \in ChildSlots(TreeNodes(p)) :
                /\ IsSlot(TreeNodes(p), slot)
                /\ nodes = ParsedWithMalformed(TreeNodes(p), slot)
    /\ data_context = [root_path |-> <<"data">>]
    /\ InitRest
    /\ InitNoFetch
    /\ local_file = NoFile

SpecIngest == InitIngest /\ [][NextIngest]_vars

---------------------------------------------------------------------------
(* Actions: get_chunked, chunk by chunk.  Sizes are in bytes; MaxChunk      *)
(* stands for the chunk_size of iter_content, which yields chunks of any    *)
(* length up to it.                                                        *)

\* the cp_percent arguments considered, as fractions; 0.1 is the default
CpPercents ==
    {[num |-> 1, den |-> 10], [num |-> 1, den |-> 4], [num |-> 1, den |-> 2]}

\* what the server answers a GET with: whether the request gets through, the
\* size of the body, and whether Content-Length is sent (with no
\* Content-Encoding)
ChunkedEnvs == [get : {"ok", "fail"}, body : 0 .. MaxTotal, reports : BOOLEAN]

\* the file get_chunked is asked to write
ChunkedDst == <<"data", "f">>

\* line 901, the checkpoint size when the size of the source is unknown:
\* a hundred chunks
UnknownSizeCheckpoint == 100 * MaxChunk

\* lines 899-902: int(cp_percent * filesize_src), or the fixed size
CheckpointSize(cp_percent, filesize_src) ==
    IF filesize_src # NoneInt
    THEN (cp_percent.num * filesize_src) \div cp_percent.den
    ELSE UnknownSizeCheckpoint

\* get_chunked(source_url, dst_path, log=..., cp_percent=...), lines 885-906:
\* up to the first chunk
GetChunked(env, log, cp_percent) ==
    LET filesize_src == IF env.reports THEN env.body ELSE NoneInt
    IN IF env.get = "fail"
       THEN /\ op' = "raised"
            /\ exc' = "ConnectionError"
            /\ net' = Append(net, HttpCall(NoneId, "get", "http://h/f", FALSE,
                                           NoneInt, NoneInt))
            /\ UNCHANGED <<gc, files, writes>>
       ELSE /\ op' = "get_chunked"
            /\ net' = Append(net, HttpCall(NoneId, "get", "http://h/f", TRUE,
                                           filesize_src, env.body))
            /\ gc' = [active |-> TRUE, body |-> env.body,
                      filesize_src |-> filesize_src, log |-> log,
                      cp_percent |-> cp_percent,
                      cp_chunk_size |-> CheckpointSize(cp_percent, filesize_src),
                      cp_chunk_idx |-> 0, chunk_accum |-> 0, emitted |-> 0]
            /\ files' = (ChunkedDst :> 0) @@ files
            /\ writes' = Append(writes, [node |-> NoneId, path |-> ChunkedDst])
            /\ UNCHANGED exc

\* lines 907-925: one chunk of the body is written and counted, and a
\* checkpoint is logged if cp_chunk_idx * cp_chunk_size < chunk_accum
GetChunkedChunk(length) ==
    LET chunk_accum == gc.chunk_accum + length
        checkpoint == gc.cp_chunk_idx * gc.cp_chunk_size < chunk_accum
    IN /\ op = "get_chunked"
       /\ chunk_accum <= gc.body
       /\ gc' = [gc EXCEPT !.chunk_accum = chunk_accum,
                           !.cp_chunk_idx = IF checkpoint THEN @ + 1 ELSE @,
                           !.emitted = IF checkpoint /\ gc.log THEN @ + 1 ELSE @]
       /\ files' = (ChunkedDst :> chunk_accum) @@ files
       /\ UNCHANGED <<op, exc, net, writes>>

\* the body is exhausted: the file is closed and get_chunked returns
GetChunkedReturn ==
    /\ op = "get_chunked"
    /\ gc.chunk_accum = gc.body
    /\ op' = "returned"
    /\ UNCHANGED <<gc, files, exc, net, writes>>

\* what no step of get_chunked touches
ChunkedFrame ==
    UNCHANGED <<flags, dirs, cd, dl, ftp, snap, args_vars, seq_vars, tree_vars,
                resolve_vars, apply_vars, built, policy_vars>>

NextChunked ==
    \/ /\ op = "init"
       /\ \E env \in ChunkedEnvs, log \in BOOLEAN, cp_percent \in CpPercents :
             GetChunked(env, log, cp_percent)
       /\ ChunkedFrame
    \/ /\ \E length \in 1 .. MaxChunk : GetChunkedChunk(length)
       /\ ChunkedFrame
    \/ /\ GetChunkedReturn
       /\ ChunkedFrame

InitChunked ==
    /\ InitTree({[scheme |-> "lower", collide |-> FALSE, absolute |-> FALSE]},
                {<<"data">>})
    /\ InitRest
    /\ InitNoFetch
    /\ local_file = NoFile

SpecChunked == InitChunked /\ [][NextChunked]_vars

---------------------------------------------------------------------------
(* Calls made one after another on one tree.  When a call is over the      *)
(* caller may make another: the records of the call that is over are       *)
(* dropped, the tree, the local files and the directories stay as they     *)
(* are.                                                                    *)

\* Datasource.download and Dataset.download called on the node.  A
\* Datasource with a child passes the child positionally and level by
\* keyword (lines 738-750): TypeError; a Dataset calls self.org.download
\* (line 648), which a Subset does not have: AttributeError.  Neither gets
\* as far as a file or the network.
CollectionDownloadCall(n) ==
    LET e == IF nodes[n].kind = "Dataset" THEN "AttributeError"
             ELSE IF nodes[n].datasources # <<>> \/ nodes[n].datasets # <<>>
             THEN "TypeError" ELSE NoneStr
    IN /\ \/ nodes[n].kind = "Datasource"
          \/ nodes[n].kind = "Dataset" /\ nodes[nodes[n].org].kind # "RemoteSubset"
       /\ op' = IF e # NoneStr THEN "raised" ELSE "returned"
       /\ exc' = e
       /\ dl' = Append(dl, [node |-> n, validate_existing |-> TRUE,
                            reload_unconfirmable |-> TRUE, name |-> NonePath,
                            ret |-> IF e # NoneStr THEN NoneStr ELSE "None",
                            exc |-> e])
       /\ UNCHANGED <<flags, files, dirs, net, cd, writes, ftp, snap, args_vars,
                      chunk_vars, seq_vars, tree_vars, resolve_vars, apply_vars,
                      built, policy_vars>>

\* node.can_process() and node.process(): Processable's pass on every class
ProcessCall(n) ==
    /\ op' = "returned"
    /\ UNCHANGED <<fetch_vars, args_vars, chunk_vars, seq_vars, tree_vars,
                   resolve_vars, apply_vars, built, policy_vars>>

\* a call is over
CallOver == op \in {"retrieve_by_qualifier", "applied", "returned", "raised"}

\* the caller goes on to its next call
AnotherCall ==
    /\ CallOver
    /\ ncalls < MaxCalls
    /\ ncalls' = ncalls + 1
    /\ op' = "init"
    /\ qualifier' = <<>> /\ match_case' = FALSE /\ retrieved' = NoneId
    /\ calls' = <<>> /\ matches' = <<>>
    /\ apply_root' = NoneId /\ apply_stack' = <<>> /\ visits' = <<>>
    /\ net' = <<>> /\ cd' = <<>> /\ dl' = <<>> /\ writes' = <<>>
    /\ ftp' = NoSession
    /\ snap' = [node |-> NoneId, timestamp |-> <<>>, file_name |-> NoneStr]
    /\ exc' = NoneStr
    /\ UNCHANGED <<flags, files, dirs, args_vars, chunk_vars, tree_vars, built,
                   policy_vars>>

\* the qualifiers, the servers and the instant of the calls in a sequence
SeqQualifiers == {<<"ab">>, <<"ab", "cd">>, <<"ab", "cd", "r1">>, <<"ab", "ef", "rs1">>}
SeqEnvs == {env \in WalkEnvs : env.reports /\ env.get # "partial"}
SeqFtpEnvs == {env \in FtpEnvs : Len(env.nlst) <= 1}
SeqEntryEnvs == {env \in EntryEnvs : env.remote_size = MaxSize /\ env.size # "none"}
SeqInstant == Instant(2023, 5, 1, 14, 7)

NextSequence ==
    \/ /\ op = "init"
       /\ \/ \E q \in SeqQualifiers, mc \in BOOLEAN : RetrieveByQualifier(q, mc)
          \/ \E n \in DOMAIN nodes, ve \in BOOLEAN, ru \in BOOLEAN, env \in SeqEnvs :
                ResourceDownloadCall(n, ve, ru, env)
          \/ \E n \in DOMAIN nodes, env \in SeqEnvs :
                RetrieveSnapshotCall(n, SeqInstant, env)
          \/ \E n \in DOMAIN nodes, ve \in BOOLEAN, env \in SeqFtpEnvs :
                RemoteSubsetDownload(n, ve, TRUE, env)
          \/ \E n \in DOMAIN nodes : CollectionDownloadCall(n)
          \/ \E n \in DOMAIN nodes : ProcessCall(n)
    \/ \E r \in DOMAIN nodes : StartApply(r)
    \/ \E env \in SeqEnvs : ApplyWrapFn(SeqInstant, env)
    \/ ApplyChild
    \/ ApplyReturn
    \/ \E env \in SeqEntryEnvs : RemoteSubsetDownloadEntry(env)
    \/ RemoteSubsetDownloadReturn
    \/ AnotherCall

InitSequence ==
    /\ nodes = FetchNodes(TRUE)
    /\ spec = FetchSpec
    /\ data_context = [root_path |-> <<"data">>]
    /\ InitRest
    /\ InitIdle
    /\ local_file = NoFile
    /\ flags \in [download : BOOLEAN, download_dynamic : BOOLEAN]
    /\ files = <<>>

SpecSequence == InitSequence /\ [][NextSequence]_vars

---------------------------------------------------------------------------
(* Download reached either way: by a walk that applies fn, or by a call on *)
(* one node                                                                *)

NextRetrieve == NextFetch \/ NextDownload

InitRetrieve ==
    /\ nodes = FetchNodes(TRUE)
    /\ spec = FetchSpec
    /\ data_context = [root_path |-> <<"data">>]
    /\ InitRest
    /\ InitIdle
    /\ local_file = NoFile
    /\ flags \in [download : BOOLEAN, download_dynamic : BOOLEAN]
    /\ files = <<>>

SpecRetrieve == InitRetrieve /\ [][NextRetrieve]_vars

---------------------------------------------------------------------------
(* Vocabulary of the claims about the tree, read off the node fields and   *)
(* the parent links (not off traverse).                                    *)

NodeIds == DOMAIN nodes
Kind(n) == nodes[n].kind
IsLeaf(n) == Kind(n) \in {"StaticResource", "DynamicResource"}
Resolved == op = "retrieve_by_qualifier"

\* the items through which a qualifier segment can name something below n
NamedItems(n) ==
    CASE Kind(n) = "Datasource" -> nodes[n].datasources \o nodes[n].datasets
      [] Kind(n) = "Dataset" ->
            nodes[nodes[n].org].subsets \o nodes[nodes[n].org].resources
      [] Kind(n) = "Subset" -> nodes[n].subsets \o nodes[n].resources
      [] OTHER -> <<>>

\* the items of the mapping that holds n, and the key n is held under
HoldingItems(n) ==
    IF nodes[n].parent = NoneId THEN spec
    ELSE LET p == nodes[n].parent
         IN nodes[p].datasources \o nodes[p].datasets
            \o nodes[p].subsets \o nodes[p].resources
KeyOf(n) ==
    LET d == HoldingItems(n)
    IN d[CHOOSE i \in DOMAIN d : d[i].v = n].k

IsOrg(n) == nodes[n].parent # NoneId /\ Kind(nodes[n].parent) = "Dataset"

\* the qualifier that names n with the declared spelling of every name; the
\* org collection of a Dataset is named by the Dataset's qualifier
RECURSIVE QualOf(_)
QualOf(n) ==
    IF nodes[n].parent = NoneId THEN <<KeyOf(n)>>
    ELSE IF IsOrg(n) THEN QualOf(nodes[n].parent)
    ELSE Append(QualOf(nodes[n].parent), KeyOf(n))

RECURSIVE IsAncestor(_, _)
IsAncestor(a, n) ==
    /\ nodes[n].parent # NoneId
    /\ (nodes[n].parent = a \/ IsAncestor(a, nodes[n].parent))

Ancestors(n) == {a \in NodeIds : IsAncestor(a, n)}

IsPrefix(s, t) == Len(s) <= Len(t) /\ SubSeq(t, 1, Len(s)) = s

\* n and its ancestors are the only nodes their keys name: no child Source
\* carries the key of a Dataset on the way, no child Resource the key of a
\* Collection
Unshadowed(n) ==
    \A a \in Ancestors(n) \cup {n} :
        LET p == nodes[a].parent
        IN (p # NoneId /\ ~IsOrg(a)) =>
            /\ Kind(a) = "Dataset" =>
                  \A i \in DOMAIN nodes[p].datasources :
                      nodes[p].datasources[i].k # KeyOf(a)
            /\ Kind(a) \in {"Subset", "RemoteSubset"} =>
                  \A i \in DOMAIN nodes[p].resources :
                      nodes[p].resources[i].k # KeyOf(a)

\* a chain of nodes exists whose names equal the segments of q, compared
\* case-insensitively, starting among the items d
RECURSIVE CIChain(_, _)
CIChain(d, q) ==
    \E i \in DOMAIN d :
        /\ Lower(d[i].k) = Lower(Head(q))
        /\ (Len(q) = 1 \/ CIChain(NamedItems(d[i].v), Tail(q)))

---------------------------------------------------------------------------
(* Claims about qualifier resolution, checked under SpecResolve *)

\* C3: with match_case=false, retrieve_by_qualifier returns a node, whatever
\* the letter casing of the qualifier's segments, if and only if the tree
\* holds a chain of nodes whose names equal the segments case-insensitively.
C3_CaseInsensitiveLookup ==
    (Resolved /\ ~match_case) =>
        ((retrieved # NoneId) <=> CIChain(spec, qualifier))

\* the nodes C4 is about: a child Collection below a Dataset's org
\* Collection, or a StaticResource inside such a child Collection
NestedTargets ==
    {t \in NodeIds :
        /\ nodes[t].parent # NoneId
        /\ Kind(nodes[t].parent) = "Subset"
        /\ \/ Kind(t) = "Subset"
           \/ Kind(t) = "StaticResource" /\ ~IsOrg(nodes[t].parent)}

\* C4: a qualifier that names a chain through nested Collections, ending at
\* a child Collection or at a StaticResource inside it, resolves to that
\* node (stated for exact matching and for chains no other name shadows).
C4_NestedCollectionsResolve ==
    (Resolved /\ match_case) =>
        \A t \in NestedTargets :
            (Unshadowed(t) /\ qualifier = QualOf(t)) => retrieved = t

\* C5: a qualifier with at least one segment left after a StaticResource or
\* DynamicResource resolves to None, whether the leaf is found by a
\* Collection or its traverse is invoked with a non-empty segment stack.
C5_PastLeafNotFound ==
    Resolved =>
        /\ \A t \in NodeIds :
              (IsLeaf(t) /\ IsPrefix(QualOf(t), qualifier)
                  /\ Len(QualOf(t)) < Len(qualifier)) => retrieved = NoneId
        /\ \A i \in DOMAIN calls :
              (IsLeaf(calls[i].node) /\ calls[i].remaining > 0)
                  => retrieved = NoneId

\* C6: resolution that reaches a RemoteCollection with segments remaining
\* yields None, with no segment remaining it yields the RemoteCollection,
\* and a RemoteCollection has no traversable children.
C6_RemoteCollectionOpaque ==
    /\ \A r \in NodeIds :
          Kind(r) = "RemoteSubset" => get_traversable_children(r) = <<>>
    /\ Resolved =>
          /\ \A i \in DOMAIN calls :
                Kind(calls[i].node) = "RemoteSubset" =>
                    retrieved = IF calls[i].remaining = 0
                                THEN calls[i].node ELSE NoneId
          /\ \A i \in DOMAIN matches :
                Kind(matches[i].node) = "RemoteSubset" =>
                    retrieved = IF i = Len(qualifier)
                                THEN matches[i].node ELSE NoneId

\* witness of C6: traverse was invoked on a RemoteCollection with a segment
\* remaining, and the resolution returned None
C6_Witness ==
    /\ Resolved
    /\ retrieved = NoneId
    /\ \E i \in DOMAIN calls :
          Kind(calls[i].node) = "RemoteSubset" /\ calls[i].remaining > 0

\* C7: with match_case=true every name comparison of the resolution is
\* exact, at every depth: no segment matches a name it differs from.
C7_MatchCaseThreaded ==
    (Resolved /\ match_case) =>
        \A i \in DOMAIN matches : matches[i].seg = matches[i].key

\* a segment names an item under the match_case of the call
Names(seg, key) ==
    IF match_case THEN seg = key ELSE Lower(seg) = Lower(key)
SourcesNamed(s, seg) ==
    {nodes[s].datasources[i].v : i \in
        {j \in DOMAIN nodes[s].datasources : Names(seg, nodes[s].datasources[j].k)}}
DatasetsNamed(s, seg) ==
    {nodes[s].datasets[i].v : i \in
        {j \in DOMAIN nodes[s].datasets : Names(seg, nodes[s].datasets[j].k)}}
\* the segment a traverse call pops
SegmentAt(i) == qualifier[Len(qualifier) - calls[i].remaining + 1]
\* call i is a Source traversal whose segment names a child Source and a
\* child Dataset
Collision(i) ==
    /\ Kind(calls[i].node) = "Datasource"
    /\ calls[i].remaining > 0
    /\ SourcesNamed(calls[i].node, SegmentAt(i)) # {}
    /\ DatasetsNamed(calls[i].node, SegmentAt(i)) # {}

\* C8: when a segment names both a child Source and a child Dataset, the
\* Dataset is never traversed and the result is None or a node of the child
\* Source's subtree.
C8_SourceBeforeDataset ==
    Resolved =>
        \A i \in DOMAIN calls :
            Collision(i) =>
                LET srcs == SourcesNamed(calls[i].node, SegmentAt(i))
                    dsets == DatasetsNamed(calls[i].node, SegmentAt(i))
                IN /\ \A j \in DOMAIN calls : calls[j].node \notin dsets
                   /\ \/ retrieved = NoneId
                      \/ \E c \in srcs : retrieved = c \/ IsAncestor(c, retrieved)

\* witness of C8: on a collision the child Source was traversed and ended
\* in None, although the Dataset of the same name holds the node the rest
\* of the qualifier names
C8_Witness ==
    /\ Resolved
    /\ retrieved = NoneId
    /\ \E i \in DOMAIN calls :
          /\ Collision(i)
          /\ i < Len(calls)
          /\ calls[i + 1].node \in SourcesNamed(calls[i].node, SegmentAt(i))
          /\ \E d \in DatasetsNamed(calls[i].node, SegmentAt(i)) :
                traverse(d, SubSeq(qualifier, Len(qualifier) - calls[i].remaining + 2,
                                   Len(qualifier)), match_case).ret # NoneId

---------------------------------------------------------------------------
(* Claims about the validation functions, checked under SpecPolicy *)

PolicyAsked == op \in {"check_validation_policy", "check_validated"}

\* C1: check_validation_policy returns download (TRUE) exactly when the file
\* does not exist, or exists with is_valid false, or exists with is_valid
\* unknown and reload_unconfirmable true; otherwise it returns skip (FALSE).
C1_PolicyTable ==
    PolicyAsked =>
        (cvp_result <=>
            \/ ~cvp_args.exists
            \/ cvp_args.exists /\ cvp_args.is_valid = "False"
            \/ cvp_args.exists /\ cvp_args.is_valid = "None"
                  /\ cvp_args.reload_unconfirmable)

\* witness of C1: an existing file of unknown validity is skipped because
\* reload_unconfirmable is false
C1_Witness ==
    /\ op = "check_validation_policy"
    /\ cvp_args.exists
    /\ cvp_args.is_valid = "None"
    /\ ~cvp_args.reload_unconfirmable
    /\ cvp_result = FALSE

\* C2: validate_file returns (False, False) when the local file is absent,
\* (True, local size = remote size) when it is present and the remote size
\* is known, (True, None) when it is present and the remote size is unknown,
\* whatever file_hash, log and validate_size are.
C2_ValidateFile ==
    op = "validate_file" =>
        /\ vf_result.exists = (local_file # NoFile)
        /\ local_file = NoFile => vf_result.is_valid = "False"
        /\ (local_file # NoFile /\ vf_args.remote_filesize # NoneInt) =>
              vf_result.is_valid =
                  (IF local_file = vf_args.remote_filesize THEN "True" ELSE "False")
        /\ (local_file # NoFile /\ vf_args.remote_filesize = NoneInt) =>
              vf_result.is_valid = "None"

\* witness of C2: a present file whose size differs from the known remote
\* size is reported invalid although a hash is given and validate_size is off
C2_Witness ==
    /\ op = "validate_file"
    /\ local_file # NoFile
    /\ vf_args.remote_filesize # NoneInt
    /\ vf_args.remote_filesize # local_file
    /\ vf_args.file_hash # NoneStr
    /\ ~vf_args.validate_size
    /\ vf_result = [exists |-> TRUE, is_valid |-> "False"]

---------------------------------------------------------------------------
(* Claims about the apply walk, checked under SpecWalk *)

VisitedNodes == {visits[i].node : i \in DOMAIN visits}

\* the nodes reachable from n through get_traversable_children
RECURSIVE Reach(_)
Reach(n) ==
    LET cs == get_traversable_children(n)
    IN {n} \cup UNION {Reach(cs[i]) : i \in DOMAIN cs}

\* the number of parent links from n up to r
RECURSIVE Dist(_, _)
Dist(r, n) == IF n = r THEN 0 ELSE 1 + Dist(r, nodes[n].parent)

\* C9: apply invokes fn exactly once on every node reachable from the walk
\* root, on a parent strictly before any of its descendants, with the
\* node's distance from the walk root as depth.
C9_ApplyPreorderOnce ==
    /\ op \in {"apply", "applied"} =>
          /\ \A i, j \in DOMAIN visits :
                visits[i].node = visits[j].node => i = j
          /\ \A i \in DOMAIN visits :
                /\ visits[i].node \in Reach(apply_root)
                /\ visits[i].depth = Dist(apply_root, visits[i].node)
                /\ \A a \in Ancestors(visits[i].node) \cap Reach(apply_root) :
                      \E j \in 1 .. i - 1 : visits[j].node = a
    /\ op = "applied" => VisitedNodes = Reach(apply_root)

\* witness of C9: a finished walk from a root Source that went at least
\* four levels down and visited sibling subtrees
C9_Witness ==
    /\ op = "applied"
    /\ nodes[apply_root].kind = "Datasource"
    /\ nodes[apply_root].parent = NoneId
    /\ Len(visits) = Cardinality(Reach(apply_root))
    /\ Len(visits) > 10
    /\ \E i \in DOMAIN visits : visits[i].depth >= 4

---------------------------------------------------------------------------
(* Claims about build_path, checked under SpecPath *)

\* the root of the tree n is in
RECURSIVE RootOf(_)
RootOf(n) == IF nodes[n].parent = NoneId THEN n ELSE RootOf(nodes[n].parent)

\* n is a node of a tree constructed from a root Source
InTree(n) == Kind(RootOf(n)) = "Datasource"

HasPath(n) == nodes[n].path # NonePath
IsAbsolute(path) == Len(path) > 0 /\ path[1] = "/"

\* the path segments of the ancestors of n, root first, then its own
RECURSIVE SegmentsTo(_)
SegmentsTo(n) ==
    IF nodes[n].parent = NoneId THEN nodes[n].path
    ELSE SegmentsTo(nodes[n].parent) \o nodes[n].path

AllRelative(n) ==
    \A a \in Ancestors(n) \cup {n} : HasPath(a) /\ ~IsAbsolute(nodes[a].path)

\* what the parent of n contributes: its build_path, or root_path at a root
ParentPath(n) ==
    IF nodes[n].parent = NoneId
    THEN [raised |-> FALSE, value |-> data_context.root_path]
    ELSE build_path(nodes[n].parent)

\* C10 as stated: for every node of a constructed tree build_path() is the
\* root_path followed by the path segments of its ancestors and its own.
C10_Original ==
    (op = "build_path" /\ InTree(built.node)) =>
        /\ ~built.raised
        /\ built.value = data_context.root_path \o SegmentsTo(built.node)

\* C10 as amended: for every node that has a path segment (every node but a
\* DynamicResource) build_path() is the parent's build_path(), or root_path
\* for a root Source, joined with the node's segment; when the segments of
\* the node and its ancestors are all relative, that is root_path followed
\* by those segments in root-to-node order.
C10_PathCompositional ==
    (op = "build_path" /\ InTree(built.node) /\ HasPath(built.node)) =>
        /\ ~built.raised
        /\ built.value = PathDiv(ParentPath(built.node), nodes[built.node].path).value
        /\ AllRelative(built.node) =>
              built.value = data_context.root_path \o SegmentsTo(built.node)

\* witness of C10: the path of a node four levels below a root Source and
\* below a nested Source, all segments relative
C10_Witness ==
    /\ op = "build_path"
    /\ InTree(built.node)
    /\ AllRelative(built.node)
    /\ Cardinality(Ancestors(built.node)) >= 4
    /\ \E a \in Ancestors(built.node) :
          Kind(a) = "Datasource" /\ nodes[a].parent # NoneId
    /\ ~built.raised
    /\ Len(built.value) = Len(data_context.root_path) + 5
    /\ built.value = data_context.root_path \o SegmentsTo(built.node)

---------------------------------------------------------------------------
(* Claims about the walk that applies the download operation, checked      *)
(* under SpecFetch                                                         *)

Walking == op \in {"apply", "applied", "raised"} /\ apply_root # NoneId

\* the well-formed nodes below n in the order apply reaches them
RECURSIVE PreOrder(_), PreOrderAll(_)
PreOrderAll(cs) ==
    IF cs = <<>> THEN <<>> ELSE PreOrder(Head(cs)) \o PreOrderAll(Tail(cs))
PreOrder(n) ==
    IF n = NoneId THEN <<>>
    ELSE <<n>> \o PreOrderAll(get_traversable_children(n))

\* every local file was written by the run: none was there before it
NoPreExisting ==
    \A path \in DOMAIN files : \E i \in DOMAIN writes : writes[i].path = path

\* fn raised on n: n is the last node visited and the walk ended there
FailedAt(n) == op = "raised" /\ visits[Len(visits)].node = n

HasSource(n) == nodes[n].source # NoneStr /\ nodes[n].source # ""

\* C11: in a walk that applies download with no local file there before, a
\* StaticResource with retrieval GET and a source, once fn has returned on
\* it, has been probed and fetched and its body is in the file at its
\* build_path; a StaticResource with no source is asked can_download, which
\* is false, and gets no download call and no network call.
C11_DownloadScenario ==
    (Walking /\ flags.download /\ NoPreExisting) =>
        \A i \in DOMAIN visits :
            LET n == visits[i].node
            IN Kind(n) = "StaticResource" =>
                /\ nodes[n].source = NoneStr =>
                      /\ \E j \in DOMAIN cd : cd[j].node = n
                      /\ \A j \in DOMAIN cd : cd[j].node = n => cd[j].result = "False"
                      /\ \A j \in DOMAIN dl : dl[j].node # n
                      /\ \A j \in DOMAIN net : net[j].node # n
                /\ (nodes[n].retrieve_type = "GET" /\ HasSource(n) /\ ~FailedAt(n)) =>
                      /\ \E j \in DOMAIN dl : dl[j].node = n /\ dl[j].ret = "True"
                      /\ \E j \in DOMAIN net :
                            /\ net[j].node = n /\ net[j].call = "head"
                            /\ net[j].url = nodes[n].source
                      /\ \E j \in DOMAIN net :
                            /\ net[j].node = n /\ net[j].call = "get" /\ net[j].ok
                            /\ net[j].url = nodes[n].source
                            /\ build_path(n).value \in DOMAIN files
                            /\ files[build_path(n).value] = net[j].body

\* witness of C11: a finished download walk from the root Source over a tree
\* with no local file there before, in which r1 was fetched into its place
\* and r2, which has no source, was refused by can_download
C11_Witness ==
    /\ op = "applied"
    /\ flags.download
    /\ NoPreExisting
    /\ apply_root = 1
    /\ Len(visits) = Len(nodes)
    /\ nodes[7].retrieve_type = "GET" /\ HasSource(7)
    /\ build_path(7).value \in DOMAIN files
    /\ files[build_path(7).value] = MaxSize
    /\ nodes[8].source = NoneStr
    /\ \E j \in DOMAIN cd : cd[j] = [node |-> 8, result |-> "False"]
    /\ \A j \in DOMAIN dl : dl[j].node # 8

\* the target path of n can be resolved: n has a path segment, or makes its
\* file name from a timestamp
TargetResolvable(n) == HasPath(n) \/ Kind(n) = "DynamicResource"

\* C12: every can_download call the download operation makes is answered,
\* with true exactly when the node has a source, a retrieval method and a
\* resolvable target path.
C12_CanDownloadStructural ==
    \A i \in DOMAIN cd :
        /\ cd[i].result # "AttributeError"
        /\ (cd[i].result = "True") <=>
              /\ nodes[cd[i].node].source # NoneStr
              /\ nodes[cd[i].node].retrieve_type # NoneStr
              /\ TargetResolvable(cd[i].node)

\* the nodes apply reaches after n in a walk from r
AfterInWalk(r, n) ==
    LET order == PreOrder(r)
    IN {order[j] : j \in {k \in DOMAIN order :
                            \E i \in 1 .. k - 1 : order[i] = n}}

\* C16: a transport failure in a leaf's download does not end the walk: no
\* exception leaves fn, and when the walk is over every node that comes
\* after the leaf in walk order has been visited.
C16_FailureContained ==
    Walking =>
        \A k \in DOMAIN net :
            ~net[k].ok =>
                /\ exc = NoneStr
                /\ apply_stack = <<>> =>
                      AfterInWalk(apply_root, net[k].node) \subseteq VisitedNodes

\* the lengths the metadata probes of n in a network log reported
ProbedLengths(log, n) ==
    {log[i].length : i \in {k \in DOMAIN log :
        /\ log[k].node = n /\ log[k].call = "head" /\ log[k].ok
        /\ log[k].length # NoneInt}}

\* the body was asked for in a network log
Fetched(log, n) == \E j \in DOMAIN log : log[j].node = n /\ log[j].call = "get"

\* C13: a download call with validate_existing on a GET resource whose local
\* file exists and whose probe reports a length fetches the file exactly
\* when the local size differs from that length, whatever
\* reload_unconfirmable is.
C13_ProbeSizeValidates ==
    [][\A n \in DOMAIN nodes :
          (/\ op = "init"
           /\ Len(dl') = 1
           /\ dl'[1].node = n
           /\ dl'[1].validate_existing
           /\ dl'[1].name = NonePath
           /\ nodes[n].retrieve_type = "GET"
           /\ ~build_path(n).raised
           /\ LocalSize(files, build_path(n).value) # NoFile
           /\ ProbedLengths(net', n) # {})
          => \A length \in ProbedLengths(net', n) :
                Fetched(net', n) <=> LocalSize(files, build_path(n).value) # length]_vars

\* a RemoteSubset.download call over FTP has listed the remote directory
InFtpDownload == ftp.node # NoneId

\* what the validation policy says about one entry of the listing, from the
\* local file at its destination and its own remote size
PolicySaysDownload(entry, reload_unconfirmable) ==
    \/ entry.local_size = NoFile
    \/ entry.remote_size # NoneInt /\ entry.local_size # entry.remote_size
    \/ entry.remote_size = NoneInt /\ reload_unconfirmable

\* the RETR calls of a network log
Retrievals(log) == SelectSeq(log, LAMBDA c : c.call = "retr")

\* C14: in an FTP download of a RemoteSubset the entries of the listing are
\* handled one by one in listing order; an entry whose FTP calls get
\* through is fetched, in full, exactly when validate_existing is off or the
\* validation policy says download for its own local file and remote size;
\* an entry that is skipped is followed by the next one, and a call that
\* returns has handled every entry.
C14_EntriesIndependent ==
    InFtpDownload =>
        /\ Len(ftp.entries) <= Len(ftp.remote_files)
        /\ \A i \in DOMAIN ftp.entries :
              LET entry == ftp.entries[i]
              IN /\ entry.remote_file = ftp.remote_files[i]
                 /\ entry.path = ftp.parent_dir \o <<PathName(entry.remote_file)>>
                 /\ ~entry.failed =>
                       (entry.fetched <=>
                           \/ ~ftp.validate_existing
                           \/ PolicySaysDownload(entry, ftp.reload_unconfirmable))
                 /\ (~entry.fetched /\ ~entry.failed /\ i < Len(ftp.remote_files)) =>
                       \/ Len(ftp.entries) > i
                       \/ op = "ftp" /\ ftp.next = i + 1
        /\ Len(Retrievals(net)) = Cardinality({i \in DOMAIN ftp.entries : ftp.entries[i].fetched})
        /\ (ftp.entries # <<>> /\ ftp.entries[Len(ftp.entries)].fetched
                /\ ~ftp.entries[Len(ftp.entries)].failed) =>
              /\ net[Len(net)].call = "retr"
              /\ net[Len(net)].url = ftp.entries[Len(ftp.entries)].remote_file
              /\ files[ftp.entries[Len(ftp.entries)].path] = net[Len(net)].length
        /\ op = "returned" => Len(ftp.entries) = Len(ftp.remote_files)

\* witness of C14: a call with validate_existing returned after a listing of
\* two entries, the first skipped because the local file has its remote
\* size, the second fetched because no local file was there
C14_Witness ==
    /\ InFtpDownload
    /\ op = "returned"
    /\ ftp.validate_existing
    /\ ftp.remote_files = <<"/d/x", "/d/y">>
    /\ Len(ftp.entries) = 2
    /\ ~ftp.entries[1].fetched
    /\ ftp.entries[1].local_size # NoFile
    /\ ftp.entries[1].local_size = ftp.entries[1].remote_size
    /\ ftp.entries[2].fetched
    /\ ftp.entries[2].local_size = NoFile
    /\ files[ftp.entries[2].path] = MaxSize

\* the retrieve type of n has no behaviour defined for the kind of n
Unhandled(n) ==
    \/ /\ Kind(n) \in {"StaticResource", "DynamicResource"}
       /\ nodes[n].retrieve_type \in {"MANUAL", "NONE", "FTP"}
    \/ /\ Kind(n) = "RemoteSubset"
       /\ nodes[n].retrieve_type \in {"GET", "MANUAL", "NONE"}

\* C15: a download call on a node whose retrieve type is not handled for its
\* kind returns a false value (False from a resource, None from a
\* RemoteSubset) and raises nothing; no network call is made for the node
\* and no file is opened by it; called on the node alone it leaves no
\* directory and no file behind; reached in a walk, the walk does not end at
\* the node and, once over, has visited every node after it.
C15_UnhandledIsNoOp ==
    \A j \in DOMAIN dl :
        LET n == dl[j].node
        IN Unhandled(n) =>
            /\ dl[j].exc = NoneStr
            /\ dl[j].ret \in {"False", "None"}
            /\ \A k \in DOMAIN net : net[k].node # n
            /\ \A k \in DOMAIN writes : writes[k].node # n
            /\ ~Walking => (op = "returned" /\ exc = NoneStr /\ dirs = {} /\ files = <<>>)
            /\ Walking =>
                  /\ ~FailedAt(n)
                  /\ op = "applied" => AfterInWalk(apply_root, n) \subseteq VisitedNodes

\* witness of C15: a finished download walk over the collection sub, in
\* which download was called on r4 (FTP), r5 (MANUAL) and r6 (NONE), each
\* answered False, and the nodes after them were visited
C15_Witness ==
    /\ op = "applied"
    /\ apply_root = 6
    /\ flags.download
    /\ \A n \in {11, 12, 13} :
          /\ Unhandled(n)
          /\ \E j \in DOMAIN dl : dl[j].node = n /\ dl[j].ret = "False"
    /\ {14, 15, 16} \subseteq VisitedNodes
    /\ \A k \in DOMAIN net : net[k].node \notin {11, 12, 13}

\* the nodes the claim about destinations speaks of
Writer(n) == Kind(n) \in {"StaticResource", "RemoteSubset"}

\* the file paths a download of n can open for writing
Destinations(n) ==
    IF Kind(n) = "StaticResource" /\ nodes[n].retrieve_type = "GET"
    THEN {PathDiv(build_parent_path(n), nodes[n].path).value}
    ELSE IF Kind(n) = "RemoteSubset" /\ nodes[n].retrieve_type = "FTP"
    THEN {build_parent_path(n).value \o <<PathName(f)>> : f \in RemoteFiles}
    ELSE {}

\* siblings with distinct path segments
DistinctSiblings(n, m) ==
    /\ n # m
    /\ nodes[n].parent = nodes[m].parent
    /\ nodes[n].path # nodes[m].path

\* C18: every file a StaticResource or RemoteSubset opens for writing lies
\* under the node's own build_path, and is no destination of a sibling with a
\* different path segment.
C18_WritesUnderOwnPath ==
    \A k \in DOMAIN writes :
        LET n == writes[k].node
        IN Writer(n) =>
            /\ IsPrefix(build_path(n).value, writes[k].path)
            /\ \A m \in DOMAIN nodes :
                  (Writer(m) /\ DistinctSiblings(n, m)) =>
                      writes[k].path \notin Destinations(m)

\* the node a qualifier of the invocation resolves to
ResolvesTo(q) == retrieve_by_qualifier(spec, q, FALSE).ret

\* how often apply was called on n
TimesApplied(n) == Cardinality({i \in DOMAIN applied : applied[i] = n})

\* C17: when process_args has run on the qualifiers of an invocation, apply
\* has been called exactly once on the node of every qualifier that
\* resolves.
C17_EveryResolvedTargetApplied ==
    (op = "processed" /\ qualifier_args # <<>>) =>
        \A i \in DOMAIN qualifier_args :
            \A j \in DOMAIN qualifier_args[i] :
                LET n == ResolvesTo(qualifier_args[i][j])
                IN n # NoneId => TimesApplied(n) = 1

\* decimal digits, written out
Digit(d) ==
    CASE d = 0 -> "0" [] d = 1 -> "1" [] d = 2 -> "2" [] d = 3 -> "3" [] d = 4 -> "4"
      [] d = 5 -> "5" [] d = 6 -> "6" [] d = 7 -> "7" [] d = 8 -> "8" [] d = 9 -> "9"
TwoDigits(k) == Digit((k \div 10) % 10) \o Digit(k % 10)
FourDigits(k) == TwoDigits(k \div 100) \o TwoDigits(k % 100)

\* a snapshot has been taken
SnapshotTaken == snap.node # NoneId

\* C20: the file name of a snapshot is name_prefix, ".", the year in four
\* digits, "_", the month in two, "_", the day in two, "_", the hour and the
\* minute in two digits each with nothing between, ".", extension; it is
\* wx.2023_05_01_1407.csv for wx, csv and 2023-05-01 14:07; and
\* retrieve_snapshot calls download under that name, so that what is
\* written goes to the file of that name in the parent directory.
C20_SnapshotName ==
    SnapshotTaken =>
        LET n == snap.node
            t == snap.timestamp
        IN /\ snap.file_name =
                nodes[n].name_prefix \o "." \o FourDigits(t.year) \o "_"
                    \o TwoDigits(t.month) \o "_" \o TwoDigits(t.day) \o "_"
                    \o TwoDigits(t.hour) \o TwoDigits(t.minute)
                    \o "." \o nodes[n].extension
           /\ (nodes[n].name_prefix = "wx" /\ nodes[n].extension = "csv"
                    /\ t = Instant(2023, 5, 1, 14, 7)) =>
                 snap.file_name = "wx.2023_05_01_1407.csv"
           /\ \E j \in DOMAIN dl : dl[j].node = n /\ dl[j].name = <<snap.file_name>>
           /\ \A k \in DOMAIN writes :
                 writes[k].node = n =>
                    writes[k].path = build_parent_path(n).value \o <<snap.file_name>>
           /\ \A k \in DOMAIN net :
                 (net[k].node = n /\ net[k].call = "get" /\ net[k].ok
                     /\ op = "returned") =>
                    /\ build_parent_path(n).value \o <<snap.file_name>> \in DOMAIN files
                    /\ files[build_parent_path(n).value \o <<snap.file_name>>] = net[k].body

\* witness of C20: retrieve_snapshot on wx (csv, GET) at 2023-05-01 14:07
\* has returned with the body in the file wx.2023_05_01_1407.csv
C20_Witness ==
    /\ op = "returned"
    /\ snap.node = 9
    /\ nodes[9].name_prefix = "wx" /\ nodes[9].extension = "csv"
    /\ snap.timestamp = Instant(2023, 5, 1, 14, 7)
    /\ snap.file_name = "wx.2023_05_01_1407.csv"
    /\ build_parent_path(9).value \o <<"wx.2023_05_01_1407.csv">> \in DOMAIN files
    /\ files[build_parent_path(9).value \o <<"wx.2023_05_01_1407.csv">>] = MaxSize

\* C19: in a tree parsed with one malformed child, a walk comes to its end
\* without an error and has then visited every node the parse has built
\* below the node it started at: the well-formed siblings of the dropped
\* child, with all of their subtrees, are among them.
C19_SiblingsUnaffected ==
    (Walking /\ apply_stack = <<>>) =>
        /\ op = "applied"
        /\ Parsed(apply_root) \subseteq VisitedNodes

\* how often download was called on n
TimesDownloaded(n) == Cardinality({j \in DOMAIN dl : dl[j].node = n})

\* fn has been invoked on the i-th node visited and is over
FnOver(i) == i < Len(visits) \/ op = "applied"

\* C21: in a download walk, fn does not raise on a RemoteSubset, and once
\* fn is over on a RemoteSubset with a source and retrieve type FTP,
\* download has been called on it exactly once.
C21_RemoteCollectionsDownloaded ==
    (Walking /\ flags.download) =>
        \A i \in DOMAIN visits :
            LET n == visits[i].node
            IN Kind(n) = "RemoteSubset" =>
                /\ ~FailedAt(n)
                /\ (FnOver(i) /\ HasSource(n) /\ nodes[n].retrieve_type = "FTP") =>
                      TimesDownloaded(n) = 1

\* the download calls retrieve_snapshot made on n: those under a name
Snapshots(n) == {j \in DOMAIN dl : dl[j].node = n /\ dl[j].name # NonePath}

\* the download calls fn made on n itself
Downloads(n) == {j \in DOMAIN dl : dl[j].node = n /\ dl[j].name = NonePath}

\* what DynamicResource.can_download answers from the fields of n
DynamicCanDownload(n) == nodes[n].source # NoneStr /\ nodes[n].retrieve_type # NoneStr

\* C22: fn is invoked on every node the walk comes to, whatever the flags;
\* with download alone no DynamicResource is asked, snapshotted or fetched;
\* with download_dynamic alone a node on which fn is over has been
\* snapshotted, once, exactly when it is a DynamicResource whose
\* can_download is true, every network call and file write is for such a
\* node, and download was called on no node itself.
C22_OperationsPartitionKinds ==
    Walking =>
        /\ op = "applied" => VisitedNodes = Parsed(apply_root)
        /\ (flags.download /\ ~flags.download_dynamic) =>
              \A n \in DOMAIN nodes :
                  Kind(n) = "DynamicResource" =>
                      /\ \A j \in DOMAIN dl : dl[j].node # n
                      /\ \A j \in DOMAIN cd : cd[j].node # n
                      /\ \A j \in DOMAIN net : net[j].node # n
                      /\ \A j \in DOMAIN writes : writes[j].node # n
                      /\ snap.node = NoneId
        /\ (flags.download_dynamic /\ ~flags.download) =>
              /\ \A i \in DOMAIN visits :
                    LET n == visits[i].node
                    IN FnOver(i) =>
                          /\ Cardinality(Snapshots(n)) =
                                IF Kind(n) = "DynamicResource" /\ DynamicCanDownload(n)
                                THEN 1 ELSE 0
                          /\ Downloads(n) = {}
              /\ \A j \in DOMAIN dl :
                    Kind(dl[j].node) = "DynamicResource" /\ DynamicCanDownload(dl[j].node)
              /\ \A j \in DOMAIN net : Kind(net[j].node) = "DynamicResource"
              /\ \A j \in DOMAIN writes : Kind(writes[j].node) = "DynamicResource"

\* witness of C22: a finished walk from the root with download_dynamic
\* alone over the tree with remote collections: wx and obs were snapshotted,
\* log, which has no source, and the static r1 were not
C22_Witness ==
    /\ op = "applied"
    /\ apply_root = 1
    /\ flags.download_dynamic /\ ~flags.download
    /\ Len(nodes) = 23
    /\ Cardinality(Snapshots(9)) = 1
    /\ Cardinality(Snapshots(16)) = 1
    /\ Kind(23) = "DynamicResource" /\ ~DynamicCanDownload(23)
    /\ 23 \in VisitedNodes /\ Snapshots(23) = {}
    /\ 7 \in VisitedNodes /\ \A j \in DOMAIN dl : dl[j].node # 7
    /\ \E j \in DOMAIN net : net[j].node = 9 /\ net[j].call = "get" /\ net[j].ok

\* the number of multiples k * p * T, k >= 1, that count bytes have reached
MultiplesReached(cp_percent, total, count) ==
    (cp_percent.den * count) \div (cp_percent.num * total)

\* C23: when get_chunked has streamed a body of known size T > 0 with
\* logging on, the number of checkpoints it has logged is the number of
\* multiples of cp_percent * T that the byte count has reached.
C23_CheckpointPerCrossing ==
    (op = "returned" /\ gc.active /\ gc.log /\ gc.filesize_src # NoneInt
        /\ gc.filesize_src > 0) =>
        gc.emitted = MultiplesReached(gc.cp_percent, gc.filesize_src, gc.chunk_accum)

\* the metadata probe of n got through in a network log
Probed(log, n) == \E j \in DOMAIN log : log[j].node = n /\ log[j].call = "head" /\ log[j].ok

\* the destination of a download call: parent directory joined with the name
Destination(call) ==
    PathDiv(build_parent_path(call.node),
            IF call.name = NonePath THEN nodes[call.node].path ELSE call.name)

\* C24: a download call on a GET resource that, with validate_existing,
\* returns after the probe without fetching (the skip decision, which is
\* taken whenever the file exists, its remote size is unknown and
\* reload_unconfirmable is off) has left every file as it was, has opened
\* none, and returns True, the destination being there; a call that fetched
\* and returns True has fetched from the source and written the body to the
\* parent directory joined with the name, which for a StaticResource called
\* with no name is its build_path.
C24_SkipLeavesFile ==
    [][\A n \in DOMAIN nodes :
          (/\ op = "init"
           /\ Len(dl') = 1
           /\ dl'[1].node = n
           /\ IsLeaf(n)
           /\ nodes[n].retrieve_type = "GET"
           /\ ~Destination(dl'[1]).raised)
          => LET call == dl'[1]
                 dest == Destination(call).value
             IN /\ (/\ call.validate_existing /\ ~call.reload_unconfirmable
                    /\ dest \in DOMAIN files
                    /\ Probed(net', n) /\ ProbedLengths(net', n) = {})
                   => ~Fetched(net', n)
                /\ (call.validate_existing /\ Probed(net', n) /\ ~Fetched(net', n))
                   => /\ op' = "returned"
                      /\ call.ret = "True"
                      /\ dest \in DOMAIN files
                      /\ files' = files
                      /\ writes' = writes
                /\ (call.ret = "True" /\ (~call.validate_existing \/ Fetched(net', n)))
                   => /\ \E j \in DOMAIN net' :
                            /\ net'[j].node = n /\ net'[j].call = "get" /\ net'[j].ok
                            /\ net'[j].url = nodes[n].source
                            /\ dest \in DOMAIN files'
                            /\ files'[dest] = net'[j].body
                      /\ \E k \in DOMAIN writes' : writes'[k] = [node |-> n, path |-> dest]
                      /\ \A path \in DOMAIN files : path # dest => files'[path] = files[path]
                      /\ (Kind(n) = "StaticResource" /\ call.name = NonePath)
                            => dest = build_path(n).value]_vars

\* witness of C24: download(validate_existing=True) on r1 has returned True
\* after the probe with no fetch, the local file of one byte still there
C24_Witness ==
    /\ op = "returned"
    /\ Len(dl) = 1
    /\ dl[1].node = 7 /\ dl[1].validate_existing /\ dl[1].ret = "True"
    /\ Probed(net, 7) /\ ~Fetched(net, 7)
    /\ writes = <<>>
    /\ build_path(7).value \in DOMAIN files
    /\ files[build_path(7).value] = 1

\* the fields of a node that construction sets
SameNode(a, b) ==
    /\ a.kind = b.kind /\ a.name = b.name /\ a.path = b.path /\ a.parent = b.parent
    /\ a.datasources = b.datasources /\ a.datasets = b.datasets /\ a.org = b.org
    /\ a.subsets = b.subsets /\ a.resources = b.resources
    /\ a.source = b.source /\ a.retrieve_type = b.retrieve_type
    /\ a.name_prefix = b.name_prefix /\ a.extension = b.extension

\* C25: no step of a retrieve_by_qualifier, apply, download,
\* retrieve_snapshot or process call, in any sequence of such calls, changes
\* a node: name, path segment, parent, child maps, source and retrieve type
\* of every node, and the root collection, are after the step what they
\* were before.
C25_TreeNeverChanges ==
    [][/\ DOMAIN nodes' = DOMAIN nodes
       /\ \A n \in DOMAIN nodes : SameNode(nodes'[n], nodes[n])
       /\ spec' = spec
       /\ data_context' = data_context]_vars

\* the tree is the one that was constructed
AsConstructed == nodes = FetchNodes(TRUE) /\ spec = FetchSpec

\* witness of C25: after a first call that left a file behind, a download
\* walk from the root of the tree, which is as constructed, has visited r1
\* and fetched the r1 of sub
C25_Witness ==
    /\ ncalls = MaxCalls
    /\ AsConstructed
    /\ Walking /\ apply_root = 1 /\ flags.download
    /\ 7 \in VisitedNodes
    /\ Fetched(net, 10)
    /\ \E path \in DOMAIN files : \A k \in DOMAIN writes : writes[k].path # path

===========================================================================
